---- MODULE Spec2Model ----
(***************************************************************************)
(* Model of the annotation extraction, normalisation and filtering         *)
(* pipeline of apple-books-export (database.ts): the epoch converter, the  *)
(* style and type classifiers, the store locator, the annotation query,    *)
(* groupByBook / transformAnnotations and filterAnnotations; of the        *)
(* Database adapter (db-adapter.ts); of the JSON exporter                  *)
(* (exporters/json.ts); and of a run of main with its parseArgs            *)
(* (index.ts).                                                             *)
(*                                                                         *)
(* JavaScript strings are sequences of character codes; the JavaScript     *)
(* value null of a nullable string field is the one-element sequence       *)
(* <<-1>>, which is no string.  Kinds, colours and formats, which the      *)
(* code only compares for equality, are TLA+ strings; the words of the     *)
(* command line are character codes and word() gives their TLA+ string.    *)
(*                                                                         *)
(* A JavaScript number holding a count of seconds is a record              *)
(* [day, sec] standing for day * 86400 + sec with 0 <= sec < 86400, so     *)
(* that the range of Date (100 000 000 days either side of 1970) can be    *)
(* reached with 32 bit arithmetic.                                         *)
(***************************************************************************)
EXTENDS Integers, Sequences, FiniteSets, TLC

VARIABLES
  pc,        \* position of the caller: "call", "done", or a pipeline step
  call,      \* the function called and its arguments
  ret,       \* the value it returned
  annTable,  \* rows of ZAEANNOTATION in the annotations store
  libTable,  \* rows of ZBKLIBRARYASSET in the library store
  rows,      \* rawAnnotations, the result of queryAnnotations
  books,     \* the result of groupByBook(rows) in the pipeline
  anns,      \* the result of transformAnnotations(rows) in the pipeline
  argv,      \* process.argv.slice(2)
  cliOptions, \* the CliOptions main got from parseArgs
  fileSystem, \* the file system findDatabases reads
  env,       \* the runtime and the SQLite modules it can load
  schema,    \* the columns the tables of the two stores have
  located,   \* the two store paths main got from findDatabases
  session,   \* the Database object of queryAnnotations
  engine,    \* the SQLite connection behind it
  ops,       \* the store operations issued so far, in order
  filteredBooks, \* main's filteredBooks
  exported,  \* the exporter calls made, with the Books handed over
  exit       \* whether the process has ended, its status and report

vars == <<pc, call, ret, annTable, libTable, rows, books, anns, argv,
          cliOptions, fileSystem, env, schema, located, session, engine, ops,
          filteredBooks, exported, exit>>

----------------------------------------------------------------------------
(* Bounds *)

MaxStrLen == 2       \* longest text / note drawn for the classifiers
StyleSpan == 7       \* style codes are drawn from -StyleSpan..StyleSpan
DaySpan == 1         \* days drawn either side of each anchor day
MaxRows == 3         \* longest row list handed to groupByBook directly
MaxId == 2           \* row identifiers are drawn from 1..MaxId
MaxTableRows == 2    \* most rows of ZAEANNOTATION in the annotations store
MaxAnns == 3         \* longest annotation list handed to filterAnnotations
MaxColorFilters == 2 \* longest colour allow-list
MaxFiles == 3        \* most file names in a directory listing
MaxBooks == 2        \* most Books handed to exportToJson

----------------------------------------------------------------------------
(* JavaScript values *)

null == <<-1>>

None == [fn |-> "none"]

\* White space and line terminators removed by String.prototype.trim
\* (the ones below 256).
WhiteSpace == {9, 10, 11, 12, 13, 32, 160}

RECURSIVE trimStart(_)
trimStart(s) ==
  IF s = <<>> THEN s
  ELSE IF Head(s) \in WhiteSpace THEN trimStart(Tail(s)) ELSE s

RECURSIVE trimEnd(_)
trimEnd(s) ==
  IF s = <<>> THEN s
  ELSE IF s[Len(s)] \in WhiteSpace THEN trimEnd(SubSeq(s, 1, Len(s) - 1)) ELSE s

trim(s) == trimEnd(trimStart(s))

\* ToBoolean of a value of type string | null
Truthy(s) == s # null /\ s # <<>>

----------------------------------------------------------------------------
(* determineAnnotationType *)

determineAnnotationType_TextFirst(raw) ==
  IF ~Truthy(raw.text) \/ Len(trim(raw.text)) = 0 THEN
    (IF Truthy(raw.note) /\ Len(trim(raw.note)) > 0 THEN "note" ELSE "bookmark")
  ELSE "highlight"

determineAnnotationType(raw) ==
  IF Truthy(raw.note) /\ Len(trim(raw.note)) > 0 THEN "note"
  ELSE IF ~Truthy(raw.text) \/ Len(trim(raw.text)) = 0 THEN "bookmark"
  ELSE "highlight"

----------------------------------------------------------------------------
(* mapAnnotationStyle *)

styleMap ==
  [c \in 0..5 |->
     CASE c = 0 -> [type |-> "highlight", color |-> "underline"]
       [] c = 1 -> [type |-> "highlight", color |-> "green"]
       [] c = 2 -> [type |-> "highlight", color |-> "blue"]
       [] c = 3 -> [type |-> "highlight", color |-> "yellow"]
       [] c = 4 -> [type |-> "highlight", color |-> "pink"]
       [] c = 5 -> [type |-> "highlight", color |-> "purple"]]

\* a lookup guarded by the truthiness of the code: 0 falls to the default
mapAnnotationStyle_ZeroFalsy(style) ==
  IF style # 0 /\ style \in DOMAIN styleMap THEN styleMap[style]
  ELSE [type |-> "highlight", color |-> "yellow"]

\* styleMap[style] || default: a key the object does not have reads as
\* undefined, which is falsy; every entry of the table is an object (truthy)
mapAnnotationStyle(style) ==
  IF style \in DOMAIN styleMap THEN styleMap[style]
  ELSE [type |-> "highlight", color |-> "yellow"]

----------------------------------------------------------------------------
(* convertAppleDate and Date *)

APPLE_EPOCH_OFFSET == 978307200

\* ECMAScript Date: the time value is clipped to 100 000 000 days either
\* side of 1970-01-01T00:00:00Z (8.64e15 ms); outside it is NaN.
MaxDateDays == 100000000

NaN == [day |-> 0, sec |-> -1]

InvalidDate == [valid |-> FALSE, day |-> 0, ms |-> 0]

\* timestamp + n for a number of seconds timestamp and a literal n >= 0
Plus(timestamp, n) ==
  [day |-> timestamp.day + ((timestamp.sec + n) \div 86400),
   sec |-> (timestamp.sec + n) % 86400]

\* t - n for a number of seconds t and a literal n >= 0
Minus(t, n) ==
  [day |-> t.day + ((t.sec - n) \div 86400),
   sec |-> (t.sec - n) % 86400]

\* new Date(seconds * 1000): the time value in ms, by day and ms of the day
NewDateOfSeconds(t) ==
  IF /\ t.day >= -MaxDateDays
     /\ \/ t.day < MaxDateDays
        \/ (t.day = MaxDateDays /\ t.sec * 1000 = 0)
  THEN [valid |-> TRUE, day |-> t.day, ms |-> t.sec * 1000]
  ELSE InvalidDate

\* the shift applied in the wrong direction
convertAppleDate_Subtract(timestamp) ==
  NewDateOfSeconds(Minus(timestamp, APPLE_EPOCH_OFFSET))

convertAppleDate(timestamp) ==
  NewDateOfSeconds(Plus(timestamp, APPLE_EPOCH_OFFSET))

\* date.getTime() / 1000 - APPLE_EPOCH_OFFSET: the seconds since the vendor
\* epoch read back from a Date
toSeconds(date) ==
  IF ~date.valid THEN NaN
  ELSE Minus([day |-> date.day, sec |-> date.ms \div 1000], APPLE_EPOCH_OFFSET)

\* The UTC fields of a valid Date (Date.prototype.toISOString), by the
\* proleptic Gregorian calendar.
toISOString(date) ==
  LET z == date.day + 719468
      era == z \div 146097
      doe == z - era * 146097
      yoe == (doe - (doe \div 1460) + (doe \div 36524) - (doe \div 146096)) \div 365
      doy == doe - (365 * yoe + (yoe \div 4) - (yoe \div 100))
      mp == (5 * doy + 2) \div 153
      d == doy - ((153 * mp + 2) \div 5) + 1
      m == IF mp < 10 THEN mp + 3 ELSE mp - 9
      y == yoe + era * 400 + (IF m <= 2 THEN 1 ELSE 0)
  IN [year |-> y, month |-> m, date |-> d,
      hours |-> date.ms \div 3600000,
      minutes |-> (date.ms \div 60000) % 60,
      seconds |-> (date.ms \div 1000) % 60,
      milliseconds |-> date.ms % 1000]

----------------------------------------------------------------------------
(* queryAnnotations: the join query as the store engine evaluates it *)

\* a < b for two strings under the BINARY collation (memcmp, then length)
RECURSIVE StrLess(_, _)
StrLess(a, b) ==
  IF b = <<>> THEN FALSE
  ELSE IF a = <<>> THEN TRUE
  ELSE IF Head(a) # Head(b) THEN Head(a) < Head(b)
  ELSE StrLess(Tail(a), Tail(b))

\* ascending order of a nullable text column: NULL sorts first
TextLess(a, b) ==
  IF a = null THEN b # null
  ELSE IF b = null THEN FALSE
  ELSE StrLess(a, b)

SecondsLess(a, b) == a.day < b.day \/ (a.day = b.day /\ a.sec < b.sec)

\* WHERE with the soft-delete condition left out
whereClause_None(a) == TRUE

\* WHERE ZAEANNOTATION.ZANNOTATIONDELETED = 0
whereClause(a) == a.deleted = 0

\* ON ZAEANNOTATION.ZANNOTATIONASSETID = library.ZBKLIBRARYASSET.ZASSETID
\* (a NULL on either side matches nothing)
onClause(a, l) ==
  a.assetId # null /\ l.assetId # null /\ a.assetId = l.assetId

resultRow(pk, a, title, author, genre) ==
  [id |-> pk,
   assetId |-> a.assetId,
   text |-> a.text,
   note |-> a.note,
   style |-> a.style,
   location |-> a.location,
   createdAt |-> a.createdAt,
   modifiedAt |-> a.modifiedAt,
   deleted |-> a.deleted,
   title |-> title,
   author |-> author,
   genre |-> genre]

\* FROM ZAEANNOTATION LEFT JOIN library.ZBKLIBRARYASSET ON ... WHERE ...:
\* the rows selected, before ordering
selectRows(annotations, library) ==
  UNION {
    LET a == annotations[pk]
        matches == {l \in library : onClause(a, l)}
    IN IF ~whereClause(a) THEN {}
       ELSE IF matches = {} THEN {resultRow(pk, a, null, null, null)}
       ELSE {resultRow(pk, a, l.title, l.author, l.genre) : l \in matches}
    : pk \in 1..Len(annotations)}

\* ORDER BY title, createdAt
orderByLess(r1, r2) ==
  \/ TextLess(r1.title, r2.title)
  \/ (r1.title = r2.title /\ SecondsLess(r1.createdAt, r2.createdAt))

\* every order of the selected rows that ORDER BY allows: rows equal in
\* title and createdAt come in an order the engine is free to choose
RECURSIVE orderBy(_)
orderBy(S) ==
  IF S = {} THEN {<<>>}
  ELSE UNION {
         {<<m>> \o t : t \in orderBy(S \ {m})}
         : m \in {x \in S : \A y \in S : ~orderByLess(y, x)}}

\* the row lists queryAnnotations can return
queryAnnotations(annotations, library) ==
  orderBy(selectRows(annotations, library))

----------------------------------------------------------------------------
(* transformAnnotations and groupByBook *)

\* the callback of rawAnnotations.map
\* the timestamps taken as seconds since 1970
transformAnnotationsCallback_RawDates(raw) ==
  [id |-> raw.id,
   type |-> determineAnnotationType(raw),
   color |-> mapAnnotationStyle(raw.style).color,
   text |-> raw.text,
   note |-> raw.note,
   location |-> raw.location,
   chapter |-> null,
   createdAt |-> NewDateOfSeconds(raw.createdAt),
   modifiedAt |-> NewDateOfSeconds(raw.modifiedAt)]

transformAnnotationsCallback(raw) ==
  LET type == determineAnnotationType(raw)
      color == mapAnnotationStyle(raw.style).color
  IN [id |-> raw.id,
      type |-> type,
      color |-> color,
      text |-> raw.text,
      note |-> raw.note,
      location |-> raw.location,
      chapter |-> null,
      createdAt |-> convertAppleDate(raw.createdAt),
      modifiedAt |-> convertAppleDate(raw.modifiedAt)]

\* rawAnnotations.map(raw => ...)
RECURSIVE transformAnnotations(_)
transformAnnotations(rawAnnotations) ==
  IF rawAnnotations = <<>> THEN <<>>
  ELSE <<transformAnnotationsCallback(Head(rawAnnotations))>>
       \o transformAnnotations(Tail(rawAnnotations))

\* The Map<string, Book> is the sequence of its values in insertion order;
\* keys are compared by SameValueZero, under which null is a key like any
\* other.
bookMapHas(bookMap, assetId) ==
  \E i \in 1..Len(bookMap) : bookMap[i].assetId = assetId

bookMapIndex(bookMap, assetId) ==
  CHOOSE i \in 1..Len(bookMap) : bookMap[i].assetId = assetId

newBook(raw) ==
  [assetId |-> raw.assetId,
   title |-> raw.title,
   author |-> raw.author,
   genre |-> raw.genre,
   annotations |-> <<>>]

newAnnotation(raw) ==
  LET type == determineAnnotationType(raw)
      color == mapAnnotationStyle(raw.style).color
  IN [id |-> raw.id,
      type |-> type,
      color |-> color,
      text |-> raw.text,
      note |-> raw.note,
      location |-> raw.location,
      chapter |-> null,
      createdAt |-> convertAppleDate(raw.createdAt),
      modifiedAt |-> convertAppleDate(raw.modifiedAt)]

\* the annotation put at the front of its book instead of the back
groupByBookBody_Unshift(bookMap, raw) ==
  LET assetId == raw.assetId
      map1 == IF ~bookMapHas(bookMap, assetId)
              THEN Append(bookMap, newBook(raw))
              ELSE bookMap
      book == bookMapIndex(map1, assetId)
  IN [map1 EXCEPT ![book].annotations = <<newAnnotation(raw)>> \o @]

\* a row whose id the book already holds is skipped
groupByBookBody_Dedup(bookMap, raw) ==
  LET assetId == raw.assetId
      map1 == IF ~bookMapHas(bookMap, assetId)
              THEN Append(bookMap, newBook(raw))
              ELSE bookMap
      book == bookMapIndex(map1, assetId)
  IN IF \E k \in 1..Len(map1[book].annotations) :
          map1[book].annotations[k].id = raw.id
     THEN map1
     ELSE [map1 EXCEPT ![book].annotations = Append(@, newAnnotation(raw))]

\* a book made for every row whose title differs from the book's
groupByBookBody_KeyTitle(bookMap, raw) ==
  LET has == \E i \in 1..Len(bookMap) :
                bookMap[i].assetId = raw.assetId /\ bookMap[i].title = raw.title
      map1 == IF ~has THEN Append(bookMap, newBook(raw)) ELSE bookMap
      book == CHOOSE i \in 1..Len(map1) :
                map1[i].assetId = raw.assetId /\ map1[i].title = raw.title
  IN [map1 EXCEPT ![book].annotations = Append(@, newAnnotation(raw))]

\* a new Book put before the Books already in the Map
groupByBookBody_BookAtFront(bookMap, raw) ==
  LET assetId == raw.assetId
      map1 == IF ~bookMapHas(bookMap, assetId)
              THEN <<newBook(raw)>> \o bookMap
              ELSE bookMap
      book == bookMapIndex(map1, assetId)
  IN [map1 EXCEPT ![book].annotations = Append(@, newAnnotation(raw))]

\* the metadata of the Book replaced by that of every row
groupByBookBody_LastMetadata(bookMap, raw) ==
  LET assetId == raw.assetId
      map1 == IF ~bookMapHas(bookMap, assetId)
              THEN Append(bookMap, newBook(raw))
              ELSE bookMap
      book == bookMapIndex(map1, assetId)
  IN [map1 EXCEPT ![book] =
        [newBook(raw) EXCEPT !.annotations =
           Append(map1[book].annotations, newAnnotation(raw))]]

\* one iteration of the loop over rawAnnotations
groupByBookBody(bookMap, raw) ==
  LET assetId == raw.assetId
      map1 == IF ~bookMapHas(bookMap, assetId)
              THEN Append(bookMap, newBook(raw))
              ELSE bookMap
      book == bookMapIndex(map1, assetId)
  IN [map1 EXCEPT ![book].annotations = Append(@, newAnnotation(raw))]

\* for (const raw of rawAnnotations) { ... }
RECURSIVE groupByBookLoop(_, _)
groupByBookLoop(bookMap, rest) ==
  IF rest = <<>> THEN bookMap
  ELSE groupByBookLoop(groupByBookBody(bookMap, Head(rest)), Tail(rest))

\* Array.from(bookMap.values()) after the loop over an empty Map
groupByBook(rawAnnotations) == groupByBookLoop(<<>>, rawAnnotations)

----------------------------------------------------------------------------
(* filterAnnotations *)

\* options.colorFilters.includes(color)
includes(list, x) == \E i \in 1..Len(list) : list[i] = x

\* options.colorFilters && options.colorFilters.length > 0: the optional
\* property is absent from the record when the caller leaves it out
hasColorFilters(options) ==
  "colorFilters" \in DOMAIN options /\ Len(options.colorFilters) > 0

\* bookmarks governed by the highlights flag
filterCallback_SharedFlag(ann, options) ==
  IF ann.type = "highlight" /\ ~options.includeHighlights THEN FALSE
  ELSE IF ann.type = "bookmark" /\ ~options.includeHighlights THEN FALSE
  ELSE IF ann.type = "note" /\ ~options.includeNotes THEN FALSE
  ELSE IF hasColorFilters(options) /\ ~includes(options.colorFilters, ann.color)
       THEN FALSE
  ELSE TRUE

\* the colour allow-list applied to highlights only
filterCallback_ColorOfHighlights(ann, options) ==
  IF ann.type = "highlight" /\ ~options.includeHighlights THEN FALSE
  ELSE IF ann.type = "bookmark" /\ ~options.includeBookmarks THEN FALSE
  ELSE IF ann.type = "note" /\ ~options.includeNotes THEN FALSE
  ELSE IF /\ ann.type = "highlight"
          /\ hasColorFilters(options)
          /\ ~includes(options.colorFilters, ann.color)
       THEN FALSE
  ELSE TRUE

\* the callback of annotations.filter
filterCallback(ann, options) ==
  IF ann.type = "highlight" /\ ~options.includeHighlights THEN FALSE
  ELSE IF ann.type = "bookmark" /\ ~options.includeBookmarks THEN FALSE
  ELSE IF ann.type = "note" /\ ~options.includeNotes THEN FALSE
  ELSE IF hasColorFilters(options) /\ ~includes(options.colorFilters, ann.color)
       THEN FALSE
  ELSE TRUE

\* the accepted elements collected back to front
RECURSIVE filterAnnotations_Reversed(_, _)
filterAnnotations_Reversed(annotations, options) ==
  IF annotations = <<>> THEN <<>>
  ELSE filterAnnotations_Reversed(Tail(annotations), options)
       \o (IF filterCallback(Head(annotations), options)
           THEN <<Head(annotations)>> ELSE <<>>)

\* annotations.filter(ann => ...): the elements the callback accepts, in
\* order
RECURSIVE filterAnnotations(_, _)
filterAnnotations(annotations, options) ==
  IF annotations = <<>> THEN <<>>
  ELSE (IF filterCallback(Head(annotations), options)
        THEN <<Head(annotations)>> ELSE <<>>)
       \o filterAnnotations(Tail(annotations), options)

----------------------------------------------------------------------------
(* The locator: findDatabases over a file system (database.ts). A path or  *)
(* a file name is a string; a file system maps each directory that exists *)
(* to its listing, the file names in the order readdirSync returns them.   *)

startsWith(s, prefix) ==
  Len(s) >= Len(prefix) /\ SubSeq(s, 1, Len(prefix)) = prefix

endsWith(s, suffix) ==
  Len(s) >= Len(suffix) /\ SubSeq(s, Len(s) - Len(suffix) + 1, Len(s)) = suffix

\* path.join of a directory and one more segment, "/" between them
join(dir, name) == dir \o <<47>> \o name

\* "/Users/me"
homedir ==
  <<47, 85, 115, 101, 114, 115, 47, 109, 101>>

\* join(homedir(), "Library/Containers/com.apple.iBooksX/Data/Documents")
APPLE_BOOKS_CONTAINER ==
  join(homedir,
       <<76, 105, 98, 114, 97, 114, 121, 47, 67, 111, 110, 116, 97, 105,
         110, 101, 114, 115, 47, 99, 111, 109, 46, 97, 112, 112, 108, 101,
         46, 105, 66, 111, 111, 107, 115, 88, 47, 68, 97, 116, 97, 47, 68,
         111, 99, 117, 109, 101, 110, 116, 115>>)

\* "AEAnnotation_"
AnnotationPrefix ==
  <<65, 69, 65, 110, 110, 111, 116, 97, 116, 105, 111, 110, 95>>

\* "BKLibrary"
LibraryPrefix ==
  <<66, 75, 76, 105, 98, 114, 97, 114, 121>>

\* ".sqlite"
SqliteSuffix ==
  <<46, 115, 113, 108, 105, 116, 101>>

\* join(APPLE_BOOKS_CONTAINER, "AEAnnotation")
annotationsDir ==
  join(APPLE_BOOKS_CONTAINER,
       <<65, 69, 65, 110, 110, 111, 116, 97, 116, 105, 111, 110>>)

\* join(APPLE_BOOKS_CONTAINER, "BKLibrary")
libraryDir ==
  join(APPLE_BOOKS_CONTAINER,
       <<66, 75, 76, 105, 98, 114, 97, 114, 121>>)

\* the fixed text of the four errors of findDatabases
ErrorText ==
  [
   \* "Annotations directory not found: "
   annotationsDirNotFound |->
     <<65, 110, 110, 111, 116, 97, 116, 105, 111, 110, 115, 32, 100, 105,
       114, 101, 99, 116, 111, 114, 121, 32, 110, 111, 116, 32, 102, 111,
       117, 110, 100, 58, 32>>,
   \* "No annotation database found in "
   noAnnotationDatabase |->
     <<78, 111, 32, 97, 110, 110, 111, 116, 97, 116, 105, 111, 110, 32,
       100, 97, 116, 97, 98, 97, 115, 101, 32, 102, 111, 117, 110, 100, 32,
       105, 110, 32>>,
   \* "Library directory not found: "
   libraryDirNotFound |->
     <<76, 105, 98, 114, 97, 114, 121, 32, 100, 105, 114, 101, 99, 116,
       111, 114, 121, 32, 110, 111, 116, 32, 102, 111, 117, 110, 100, 58,
       32>>,
   \* "No library database found in "
   noLibraryDatabase |->
     <<78, 111, 32, 108, 105, 98, 114, 97, 114, 121, 32, 100, 97, 116, 97,
       98, 97, 115, 101, 32, 102, 111, 117, 110, 100, 32, 105, 110, 32>>
  ]

existsSync(fs, dir) == dir \in DOMAIN fs

readdirSync(fs, dir) == fs[dir]

\* customPaths?.annotations && customPaths?.library: both properties are
\* present and neither is the empty string
bothCustomPaths(customPaths) ==
  /\ "annotations" \in DOMAIN customPaths
  /\ customPaths.annotations # <<>>
  /\ "library" \in DOMAIN customPaths
  /\ customPaths.library # <<>>

RECURSIVE matchingFiles(_, _)
\* readdirSync(dir).filter(f => f.startsWith(prefix) && f.endsWith(".sqlite"))
matchingFiles(files, prefix) ==
  IF files = <<>> THEN <<>>
  ELSE (IF startsWith(Head(files), prefix) /\ endsWith(Head(files), SqliteSuffix)
        THEN <<Head(files)>> ELSE <<>>)
       \o matchingFiles(Tail(files), prefix)

Returned(value, fsLog) == [threw |-> FALSE, value |-> value, fsLog |-> fsLog]

Thrown(message, fsLog) ==
  [threw |-> TRUE, error |-> [name |-> "Error", message |-> message],
   fsLog |-> fsLog]

FsCall(op, path) == [op |-> op, path |-> path]

customPathsResult_Swapped(customPaths) ==
  [annotationsDb |-> customPaths.library, libraryDb |-> customPaths.annotations]

\* the object returned when both paths are supplied
customPathsResult(customPaths) ==
  [annotationsDb |-> customPaths.annotations, libraryDb |-> customPaths.library]

notFoundMessage_NoPath(text, dir) == text

\* the template literals of the four errors: the text, then the directory
notFoundMessage(text, dir) == text \o dir

firstFile_Last(files) == files[Len(files)]

\* annotationFiles[0], libraryFiles[0]
firstFile(files) == files[1]

\* the result of findDatabases(customPaths) on the file system fs, with the
\* calls of existsSync and readdirSync it made
findDatabases(customPaths, fs) ==
  IF bothCustomPaths(customPaths)
  THEN Returned(customPathsResult(customPaths), <<>>)
  ELSE
    LET annotationFiles ==
          matchingFiles(readdirSync(fs, annotationsDir), AnnotationPrefix)
        libraryFiles ==
          matchingFiles(readdirSync(fs, libraryDir), LibraryPrefix)
        logA == <<FsCall("existsSync", annotationsDir)>>
        logAR == logA \o <<FsCall("readdirSync", annotationsDir)>>
        logL == logAR \o <<FsCall("existsSync", libraryDir)>>
        logLR == logL \o <<FsCall("readdirSync", libraryDir)>>
    IN
    IF ~existsSync(fs, annotationsDir)
    THEN Thrown(notFoundMessage(ErrorText.annotationsDirNotFound, annotationsDir), logA)
    ELSE IF Len(annotationFiles) = 0
    THEN Thrown(notFoundMessage(ErrorText.noAnnotationDatabase, annotationsDir), logAR)
    ELSE IF ~existsSync(fs, libraryDir)
    THEN Thrown(notFoundMessage(ErrorText.libraryDirNotFound, libraryDir), logL)
    ELSE IF Len(libraryFiles) = 0
    THEN Thrown(notFoundMessage(ErrorText.noLibraryDatabase, libraryDir), logLR)
    ELSE Returned([annotationsDb |-> join(annotationsDir, firstFile(annotationFiles)),
                   libraryDb |-> join(libraryDir, firstFile(libraryFiles))],
                  logLR)

----------------------------------------------------------------------------
(* The Database adapter (db-adapter.ts). A Database object holds db, the   *)
(* engine's connection object, and runtime, a RuntimeType. The values a    *)
(* JavaScript caller may store in the two fields are tagged with their     *)
(* type: a string, a plain object, or an instance of an engine's class.    *)

JsUndefined == [type |-> "undefined"]

JsString(s) == [type |-> "string", value |-> s]

JsObject(o) == [type |-> "object", value |-> o]

JsInstance(class) == [type |-> class]

\* enum RuntimeType
RuntimeType ==
  [BUN |-> JsString("bun"),
   NODE_MODERN |-> JsString("node-modern"),
   NODE_LEGACY |-> JsString("node-legacy")]

detectRuntime_Major(e) ==
  IF e.bun THEN RuntimeType.BUN
  ELSE IF e.node.major >= 22 THEN RuntimeType.NODE_MODERN
  ELSE RuntimeType.NODE_LEGACY

\* detectRuntime: e.bun tells whether globalThis.Bun is defined, e.node is
\* [major, minor] of process.versions.node; 0 is falsy
detectRuntime(e) ==
  IF e.bun THEN RuntimeType.BUN
  ELSE IF e.node.major # 0
          /\ (e.node.major > 22
              \/ (e.node.major = 22 /\ e.node.minor # 0 /\ e.node.minor >= 5))
  THEN RuntimeType.NODE_MODERN
  ELSE RuntimeType.NODE_LEGACY

\* the constructor: this.db = db; this.runtime = runtime
NewDatabaseObject(db, runtime) == [db |-> db, runtime |-> runtime]

\* the methods of the value held in this.db
methodsOf(db) ==
  IF db.type = "BunDB" THEN {"query", "run", "prepare", "close"}
  ELSE IF db.type \in {"DatabaseSync", "BetterSqlite3"} THEN {"prepare", "exec", "close"}
  ELSE {}

\* Database.run(sql): the method of this.db it calls
runMethod(database) ==
  IF database.runtime = RuntimeType.BUN THEN "run" ELSE "prepare"

\* Database.query(sql).all(): the method of this.db it calls
queryMethod(database) ==
  IF database.runtime = RuntimeType.BUN THEN "query" ELSE "prepare"

\* calling a method the value does not have throws a TypeError
TypeErrorNotAFunction(method) ==
  [name |-> "TypeError", message |-> <<"this.db.", method, " is not a function">>]

SqliteError(statement) ==
  [name |-> "SqliteError", message |-> <<"SQLite failed: ", statement>>]

NoSqliteError ==
  [name |-> "Error", message |-> <<"No SQLite implementation available">>]

\* the engine's connection: none until an engine class is instantiated;
\* statements are the SQL statements handed to the engine, in order
NoEngine ==
  [state |-> "none", binding |-> "none", path |-> <<>>, readonly |-> FALSE,
   attached |-> <<>>, statements |-> <<>>]

\* new BunDB(path, options) / new BetterSqlite3(path, options), which read
\* options.readonly, and new NodeSqlite(path, nodeOptions), which reads
\* nodeOptions.readOnly
openEngine(binding, path, engineOptions, key) ==
  [state |-> "open", binding |-> binding, path |-> path,
   readonly |-> (key \in DOMAIN engineOptions /\ engineOptions[key]),
   attached |-> <<>>, statements |-> <<>>]

nodeOptions_Empty(options) == <<>>

\* const nodeOptions = options?.readonly ? { readOnly: true } : {}
nodeOptions(options) ==
  IF "readonly" \in DOMAIN options /\ options.readonly
  THEN [readOnly |-> TRUE] ELSE <<>>

----------------------------------------------------------------------------
(* The JSON exporter (exporters/json.ts). A file's content is the value    *)
(* JSON.stringify is given; the file writes are logged in order.           *)

\* the string literals of the exporter, as char codes
JsonText ==
  [unknownBook |->  \* Unknown Book (
     <<85, 110, 107, 110, 111, 119, 110, 32, 66, 111, 111, 107, 32, 40>>,
   close |->  \* )
     <<41>>,
   json |->  \* .json
     <<46, 106, 115, 111, 110>>,
   dot |->  \* .
     <<46>>]

\* s.substring(0, n)
substring(s, n) == SubSeq(s, 1, IF Len(s) < n THEN Len(s) ELSE n)

\* .replace(/[/\\?%*:|"<>]/g, '-')
replaceInvalid(s) ==
  [i \in 1..Len(s) |->
     IF s[i] \in {47, 92, 63, 37, 42, 58, 124, 34, 60, 62} THEN 45 ELSE s[i]]

RECURSIVE collapseSpaces(_)
\* .replace(/\s+/g, ' ')
collapseSpaces(s) ==
  IF s = <<>> THEN <<>>
  ELSE IF Head(s) \in WhiteSpace THEN <<32>> \o collapseSpaces(trimStart(Tail(s)))
  ELSE <<Head(s)>> \o collapseSpaces(Tail(s))

sanitizeFilename(filename) ==
  substring(trim(collapseSpaces(replaceInvalid(filename))), 200)

\* book.title || `Unknown Book (${book.assetId.substring(0, 8)})`
bookTitle(book) ==
  IF Truthy(book.title) THEN book.title
  ELSE JsonText.unknownBook \o substring(book.assetId, 8) \o JsonText.close

\* sanitizeFilename(`${bookTitle}.json`)
filenameOf(book) ==
  sanitizeFilename(bookTitle(book) \o JsonText.json)

\* path.dirname of a path without trailing slashes
dirname(path) ==
  LET slashes == {i \in 1..Len(path) : path[i] = 47} IN
    IF slashes = {} THEN JsonText.dot
    ELSE LET last == CHOOSE i \in slashes : \A j \in slashes : j <= i IN
           IF last = 1 THEN <<47>> ELSE SubSeq(path, 1, last - 1)

\* the object written for one annotation
annotationData(ann) ==
  [id |-> ann.id, type |-> ann.type, color |-> ann.color, text |-> ann.text,
   note |-> ann.note, location |-> ann.location, chapter |-> ann.chapter,
   createdAt |-> toISOString(ann.createdAt),
   modifiedAt |-> toISOString(ann.modifiedAt)]

\* the fields a book has in both layouts
bookFields(book) ==
  [assetId |-> book.assetId, title |-> book.title, author |-> book.author,
   genre |-> book.genre, annotationCount |-> Len(book.annotations),
   annotations |-> [i \in 1..Len(book.annotations) |->
                      annotationData(book.annotations[i])]]

\* toISOString throws a RangeError on an Invalid Date
datesValid(book) ==
  \A i \in 1..Len(book.annotations) :
    book.annotations[i].createdAt.valid /\ book.annotations[i].modifiedAt.valid

WriteFile(path, data) == [op |-> "writeFileSync", path |-> path, data |-> data]

RECURSIVE exportToMultipleJsonLoop(_, _, _, _, _)
\* for (const book of books): skip, or build the path and the data, write
\* the file and push the path
exportToMultipleJsonLoop(bookList, outputDir, now, filepaths, fsLog) ==
  IF bookList = <<>> THEN Returned(filepaths, fsLog)
  ELSE LET book == Head(bookList) IN
    IF Len(book.annotations) = 0
    THEN exportToMultipleJsonLoop(Tail(bookList), outputDir, now, filepaths, fsLog)
    ELSE IF ~Truthy(book.title) /\ book.assetId = null
    THEN [threw |-> TRUE, error |-> [name |-> "TypeError"], fsLog |-> fsLog]
    ELSE IF ~datesValid(book)
    THEN [threw |-> TRUE, error |-> [name |-> "RangeError"], fsLog |-> fsLog]
    ELSE LET filepath == join(outputDir, filenameOf(book))
             bookData == [exported |-> toISOString(now)] @@ bookFields(book)
         IN exportToMultipleJsonLoop(Tail(bookList), outputDir, now,
                                     Append(filepaths, filepath),
                                     Append(fsLog, WriteFile(filepath, bookData)))

exportToMultipleJson(bookList, outputDir, now) ==
  exportToMultipleJsonLoop(bookList, outputDir, now, <<>>,
                           <<FsCall("mkdirSync", outputDir)>>)

RECURSIVE countAnnotations(_, _)
\* books.reduce((sum, book) => sum + book.annotations.filter(...).length, 0)
\* for the annotations whose type is in types
countAnnotations(bookList, types) ==
  IF bookList = <<>> THEN 0
  ELSE Cardinality({i \in 1..Len(Head(bookList).annotations) :
                      Head(bookList).annotations[i].type \in types})
       + countAnnotations(Tail(bookList), types)

RECURSIVE totalAnnotations(_)
\* books.reduce((sum, book) => sum + book.annotations.length, 0)
totalAnnotations(bookList) ==
  IF bookList = <<>> THEN 0
  ELSE Len(Head(bookList).annotations) + totalAnnotations(Tail(bookList))

exportToSingleJson(bookList, outputPath, now) ==
  LET fsLog == <<FsCall("mkdirSync", dirname(outputPath))>> IN
    IF \E i \in 1..Len(bookList) : ~datesValid(bookList[i])
    THEN [threw |-> TRUE, error |-> [name |-> "RangeError"], fsLog |-> fsLog]
    ELSE LET exportData ==
               [exported |-> toISOString(now),
                totalBooks |-> Len(bookList),
                totalAnnotations |-> totalAnnotations(bookList),
                statistics |->
                  [highlights |-> countAnnotations(bookList, {"highlight"}),
                   bookmarks |-> countAnnotations(bookList, {"bookmark"}),
                   notes |-> countAnnotations(bookList, {"note"})],
                books |-> [i \in 1..Len(bookList) |-> bookFields(bookList[i])]]
         IN Returned(outputPath, Append(fsLog, WriteFile(outputPath, exportData)))

exportToJson(bookList, outputPath, singleFile, now) ==
  IF singleFile THEN exportToSingleJson(bookList, outputPath, now)
  ELSE exportToMultipleJson(bookList, outputPath, now)

----------------------------------------------------------------------------
(* main (index.ts): the options it reads and the values it derives *)

\* the string literals of parseArgs and the words given to it, as char codes
Text ==
  [help |->  \* --help
     <<45, 45, 104, 101, 108, 112>>,
   h |->  \* -h
     <<45, 104>>,
   format |->  \* --format
     <<45, 45, 102, 111, 114, 109, 97, 116>>,
   f |->  \* -f
     <<45, 102>>,
   output |->  \* --output
     <<45, 45, 111, 117, 116, 112, 117, 116>>,
   o |->  \* -o
     <<45, 111>>,
   singleFile |->  \* --single-file
     <<45, 45, 115, 105, 110, 103, 108, 101, 45, 102, 105, 108, 101>>,
   highlightsOnly |->  \* --highlights-only
     <<45, 45, 104, 105, 103, 104, 108, 105, 103, 104, 116, 115, 45, 111, 110, 108, 121>>,
   bookmarksOnly |->  \* --bookmarks-only
     <<45, 45, 98, 111, 111, 107, 109, 97, 114, 107, 115, 45, 111, 110, 108, 121>>,
   notesOnly |->  \* --notes-only
     <<45, 45, 110, 111, 116, 101, 115, 45, 111, 110, 108, 121>>,
   includeBookmarks |->  \* --include-bookmarks
     <<45, 45, 105, 110, 99, 108, 117, 100, 101, 45, 98, 111, 111, 107, 109, 97, 114, 107, 115>>,
   colors |->  \* --colors
     <<45, 45, 99, 111, 108, 111, 114, 115>>,
   annotationsDb |->  \* --annotations-db
     <<45, 45, 97, 110, 110, 111, 116, 97, 116, 105, 111, 110, 115, 45, 100, 98>>,
   libraryDb |->  \* --library-db
     <<45, 45, 108, 105, 98, 114, 97, 114, 121, 45, 100, 98>>,
   dashes |->  \* --
     <<45, 45>>,
   html |->  \* html
     <<104, 116, 109, 108>>,
   markdown |->  \* markdown
     <<109, 97, 114, 107, 100, 111, 119, 110>>,
   json |->  \* json
     <<106, 115, 111, 110>>,
   csv |->  \* csv
     <<99, 115, 118>>,
   xml |->  \* xml
     <<120, 109, 108>>,
   JSON |->  \* JSON
     <<74, 83, 79, 78>>,
   yellow |->  \* yellow
     <<121, 101, 108, 108, 111, 119>>,
   green |->  \* green
     <<103, 114, 101, 101, 110>>,
   blue |->  \* blue
     <<98, 108, 117, 101>>,
   pink |->  \* pink
     <<112, 105, 110, 107>>,
   purple |->  \* purple
     <<112, 117, 114, 112, 108, 101>>,
   underline |->  \* underline
     <<117, 110, 100, 101, 114, 108, 105, 110, 101>>,
   red |->  \* red
     <<114, 101, 100>>,
   outHtml |->  \* ./apple-books-export.html
     <<46, 47, 97, 112, 112, 108, 101, 45, 98, 111, 111, 107, 115, 45, 101, 120, 112, 111, 114, 116, 46, 104, 116, 109, 108>>,
   outJson |->  \* ./apple-books-export.json
     <<46, 47, 97, 112, 112, 108, 101, 45, 98, 111, 111, 107, 115, 45, 101, 120, 112, 111, 114, 116, 46, 106, 115, 111, 110>>,
   outCsv |->  \* ./apple-books-export.csv
     <<46, 47, 97, 112, 112, 108, 101, 45, 98, 111, 111, 107, 115, 45, 101, 120, 112, 111, 114, 116, 46, 99, 115, 118>>,
   outMarkdown |->  \* ./exports
     <<46, 47, 101, 120, 112, 111, 114, 116, 115>>]

\* the formats and colours are held as TLA+ strings by the rest of the
\* model: the word a text stands for, '' being "" and a text outside the
\* table "(other)"
word(text) ==
  IF text = <<>> THEN ""
  ELSE IF \E w \in DOMAIN Text : Text[w] = text
  THEN CHOOSE w \in DOMAIN Text : Text[w] = text
  ELSE "(other)"

\* String.prototype.toLowerCase on the ASCII letters
toLowerCase(s) ==
  [i \in 1..Len(s) |-> IF s[i] \in 65..90 THEN s[i] + 32 ELSE s[i]]

RECURSIVE split(_)
\* s.split(','): the pieces between the commas, [''] for ''
split(s) ==
  IF s = <<>> THEN << <<>> >>
  ELSE LET rest == split(Tail(s)) IN
         IF Head(s) = 44 THEN << <<>> >> \o rest
         ELSE << <<Head(s)>> \o Head(rest) >> \o Tail(rest)

\* parseArgs: the options before any argument is read
DefaultOptions ==
  [format |-> "html", output |-> <<>>, singleFile |-> FALSE,
   highlightsOnly |-> FALSE, bookmarksOnly |-> FALSE, notesOnly |-> FALSE,
   includeBookmarks |-> FALSE, help |-> FALSE]

\* parseArgs: a first argument that is a format word is taken as the format
positionalFormat(args) ==
  /\ Len(args) > 0
  /\ ~startsWith(args[1], Text.dashes)
  /\ toLowerCase(args[1]) \in {Text.html, Text.markdown, Text.json, Text.csv}

\* options.colors = args[++i].split(',') as AnnotationColor[]
colorsOf(value) ==
  [i \in 1..Len(split(value)) |-> word(split(value)[i])]

RECURSIVE parseLoop(_, _, _)
\* parseArgs: the switch over args[i]; args[++i] past the end is undefined,
\* which '.split' cannot be read of, which is falsy as an output or a
\* path, and which no format equals
parseLoop(args, i, o) ==
  IF i > Len(args) THEN [threw |-> FALSE, options |-> o]
  ELSE
    LET a == args[i]
        given == i + 1 <= Len(args)
        value == IF given THEN args[i + 1] ELSE <<>>
    IN CASE a \in {Text.help, Text.h} ->
              parseLoop(args, i + 1, [o EXCEPT !.help = TRUE])
         [] a \in {Text.format, Text.f} ->
              parseLoop(args, i + 2,
                        [o EXCEPT !.format = IF given THEN word(value) ELSE "undefined"])
         [] a \in {Text.output, Text.o} ->
              parseLoop(args, i + 2, [o EXCEPT !.output = value])
         [] a = Text.singleFile ->
              parseLoop(args, i + 1, [o EXCEPT !.singleFile = TRUE])
         [] a = Text.highlightsOnly ->
              parseLoop(args, i + 1, [o EXCEPT !.highlightsOnly = TRUE])
         [] a = Text.bookmarksOnly ->
              parseLoop(args, i + 1, [o EXCEPT !.bookmarksOnly = TRUE])
         [] a = Text.notesOnly ->
              parseLoop(args, i + 1, [o EXCEPT !.notesOnly = TRUE])
         [] a = Text.includeBookmarks ->
              parseLoop(args, i + 1, [o EXCEPT !.includeBookmarks = TRUE])
         [] a = Text.colors ->
              IF given
              THEN parseLoop(args, i + 2, [colors |-> colorsOf(value)] @@ o)
              ELSE [threw |-> TRUE,
                    error |-> [name |-> "TypeError",
                               message |-> <<"Cannot read properties of undefined">>]]
         [] a = Text.annotationsDb ->
              parseLoop(args, i + 2, [annotationsDb |-> value] @@ o)
         [] a = Text.libraryDb ->
              parseLoop(args, i + 2, [libraryDb |-> value] @@ o)
         [] OTHER -> parseLoop(args, i + 1, o)

\* parseArgs: the default output path of the format when none was given
defaultOutput(o) ==
  IF o.output # <<>> THEN o
  ELSE CASE o.format = "html" -> [o EXCEPT !.output = Text.outHtml]
         [] o.format = "json" -> [o EXCEPT !.output = Text.outJson]
         [] o.format = "csv" -> [o EXCEPT !.output = Text.outCsv]
         [] o.format = "markdown" -> [o EXCEPT !.output = Text.outMarkdown]
         [] OTHER -> o

\* parseArgs over process.argv.slice(2)
parseArgs(args) ==
  LET parsed ==
        IF positionalFormat(args)
        THEN parseLoop(Tail(args), 1,
                       [DefaultOptions EXCEPT !.format = word(toLowerCase(args[1]))])
        ELSE parseLoop(args, 1, DefaultOptions)
  IN IF parsed.threw THEN parsed
     ELSE [threw |-> FALSE, options |-> defaultOutput(parsed.options)]

\* { annotations: options.annotationsDb, library: options.libraryDb }
customPathsOf(o) ==
  [k \in {kk \in {"annotations", "library"} :
            (IF kk = "annotations" THEN "annotationsDb" ELSE "libraryDb") \in DOMAIN o} |->
     IF k = "annotations" THEN o.annotationsDb ELSE o.libraryDb]

includeHighlights(o) == ~o.bookmarksOnly /\ ~o.notesOnly

includeBookmarks_Always(o) == TRUE

includeBookmarks(o) == o.includeBookmarks \/ o.bookmarksOnly

includeNotes(o) == ~o.highlightsOnly /\ ~o.bookmarksOnly

\* the options main hands to filterAnnotations
filterOptionsOf(o) ==
  LET flags == [includeHighlights |-> includeHighlights(o),
                includeBookmarks |-> includeBookmarks(o),
                includeNotes |-> includeNotes(o)]
  IN IF "colors" \in DOMAIN o THEN [colorFilters |-> o.colors] @@ flags ELSE flags

\* { ...book, annotations: filterAnnotations(book.annotations, ...) }
reattach(book, filterOptions) ==
  [book EXCEPT !.annotations = filterAnnotations(book.annotations, filterOptions)]

hasAnnotations_Always(book) == TRUE

\* .filter(book => book.annotations.length > 0)
hasAnnotations(book) == Len(book.annotations) > 0

RECURSIVE filterBooks(_, _)
\* allBooks.map(...).filter(...)
filterBooks(allBooks, filterOptions) ==
  IF allBooks = <<>> THEN <<>>
  ELSE (IF hasAnnotations(reattach(Head(allBooks), filterOptions))
        THEN <<reattach(Head(allBooks), filterOptions)>> ELSE <<>>)
       \o filterBooks(Tail(allBooks), filterOptions)

\* switch (options.format): the exporter called, "" for the default branch
exporterOf(o) ==
  CASE o.format = "html" -> "exportToHtml"
    [] o.format = "markdown" ->
         (IF o.singleFile THEN "exportToSingleMarkdown" ELSE "exportToMarkdown")
    [] o.format = "json" -> "exportToJson"
    [] o.format = "csv" -> "exportToCsv"
    [] OTHER -> ""

UnknownFormatError(format) ==
  [name |-> "Error", message |-> <<"Unknown format: ", format>>]

exitStatus_AlwaysZero(report) == 0

exitStatus_NoMatchFails(report) == IF report = "complete" THEN 0 ELSE 1

\* process.exit(1) in the catch block, process.exit(0) when nothing
\* matches, and the status of a process that ends by itself
exitStatus(report) == IF report = "error" THEN 1 ELSE 0

Running == [exited |-> FALSE]

\* the process has ended: what it reported, and its status
Exited(report, at, error) ==
  [exited |-> TRUE, code |-> exitStatus(report), report |-> report,
   at |-> at, error |-> error]

NoError == [name |-> "none"]

NoPaths == [annotationsDb |-> <<>>, libraryDb |-> <<>>]

\* no run of main is under way: the state of the direct calls
NoRun ==
  /\ argv = <<>>
  /\ cliOptions = DefaultOptions
  /\ fileSystem = <<>>
  /\ env = [bun |-> TRUE, node |-> [major |-> 22, minor |-> 5],
            nodeSqlite |-> FALSE, betterSqlite3 |-> FALSE]
  /\ schema = {}
  /\ located = NoPaths
  /\ session = NewDatabaseObject(JsUndefined, JsUndefined)
  /\ engine = NoEngine
  /\ ops = <<>>
  /\ filteredBooks = <<>>
  /\ exported = <<>>
  /\ exit = Running

----------------------------------------------------------------------------
(* Inputs of the classifiers and the converter *)

Chars == {9, 32, 97}

RECURSIVE StringsUpTo(_)
StringsUpTo(n) ==
  IF n = 0 THEN {<<>>}
  ELSE LET shorter == StringsUpTo(n - 1)
       IN shorter \cup {Append(s, c) : s \in shorter, c \in Chars}

NullableStrings == {null} \cup StringsUpTo(MaxStrLen)

StyleCodes == (-StyleSpan)..StyleSpan

\* Anchor days: the vendor epoch, a present-day stamp, and the two ends of
\* the Date range shifted back by the offset (11323 days).
AnchorDays == {0, 9000, MaxDateDays - 11323, -MaxDateDays - 11323}

Timestamps ==
  [day : {a + k : a \in AnchorDays, k \in (-DaySpan)..DaySpan},
   sec : {0, 1, 86399}]

ClassifierCalls ==
  [fn : {"determineAnnotationType"}, text : NullableStrings, note : NullableStrings]
  \cup [fn : {"mapAnnotationStyle"}, style : StyleCodes]
  \cup [fn : {"convertAppleDate"}, timestamp : Timestamps]

----------------------------------------------------------------------------
(* Calls of the pure functions *)

InitClassify ==
  /\ pc = "call"
  /\ call \in ClassifierCalls
  /\ ret = None
  /\ annTable = <<>>
  /\ libTable = {}
  /\ rows = <<>>
  /\ books = <<>>
  /\ anns = <<>>
  /\ NoRun

pipelineVars == <<annTable, libTable, rows, books, anns, argv, cliOptions,
                  fileSystem, env, schema, located, session, engine, ops,
                  filteredBooks, exported, exit>>

DetermineAnnotationType ==
  /\ pc = "call"
  /\ call.fn = "determineAnnotationType"
  /\ ret' = [type |-> determineAnnotationType(call)]
  /\ pc' = "done"
  /\ UNCHANGED <<call, pipelineVars>>

MapAnnotationStyle ==
  /\ pc = "call"
  /\ call.fn = "mapAnnotationStyle"
  /\ ret' = mapAnnotationStyle(call.style)
  /\ pc' = "done"
  /\ UNCHANGED <<call, pipelineVars>>

ConvertAppleDate ==
  /\ pc = "call"
  /\ call.fn = "convertAppleDate"
  /\ ret' = convertAppleDate(call.timestamp)
  /\ pc' = "done"
  /\ UNCHANGED <<call, pipelineVars>>

NextClassify ==
  \/ DetermineAnnotationType
  \/ MapAnnotationStyle
  \/ ConvertAppleDate

SpecClassify == InitClassify /\ [][NextClassify]_vars

----------------------------------------------------------------------------
(* Direct calls of groupByBook and transformAnnotations on any row list *)

StrEmpty == <<>>
StrB1 == <<98, 49>>
StrB2 == <<98, 50>>
StrQuote == <<113, 117, 111, 116, 101>>
StrTitleT == <<84>>
StrAuthorA == <<65>>
StrGenreG == <<71>>

AssetIds == {null, StrEmpty, StrB1, StrB2}

\* Rows with an odd id are highlights (text, no note, yellow), rows with an
\* even id are bookmarks (neither text nor note, green); a row carries the
\* metadata of a library row or none.
RawRows ==
  {[id |-> i,
    assetId |-> a,
    text |-> IF i % 2 = 1 THEN StrQuote ELSE null,
    note |-> null,
    style |-> IF i % 2 = 1 THEN 3 ELSE 1,
    location |-> null,
    createdAt |-> [day |-> 9000 + i, sec |-> 0],
    modifiedAt |-> [day |-> 9000 + i, sec |-> 1],
    deleted |-> 0,
    title |-> IF m THEN StrTitleT ELSE null,
    author |-> IF m THEN StrAuthorA ELSE null,
    genre |-> IF m THEN StrGenreG ELSE null] :
   i \in 1..MaxId, a \in AssetIds, m \in BOOLEAN}

SeqsUpTo(S, n) == UNION {[1..k -> S] : k \in 0..n}

GroupCalls ==
  [fn : {"groupByBook", "transformAnnotations"},
   rawAnnotations : SeqsUpTo(RawRows, MaxRows)]

InitGroup ==
  /\ pc = "call"
  /\ call \in GroupCalls
  /\ ret = None
  /\ annTable = <<>>
  /\ libTable = {}
  /\ rows = <<>>
  /\ books = <<>>
  /\ anns = <<>>
  /\ NoRun

CallGroupByBook ==
  /\ pc = "call"
  /\ call.fn = "groupByBook"
  /\ ret' = groupByBook(call.rawAnnotations)
  /\ pc' = "done"
  /\ UNCHANGED <<call, pipelineVars>>

CallTransformAnnotations ==
  /\ pc = "call"
  /\ call.fn = "transformAnnotations"
  /\ ret' = transformAnnotations(call.rawAnnotations)
  /\ pc' = "done"
  /\ UNCHANGED <<call, pipelineVars>>

NextGroup ==
  \/ CallGroupByBook
  \/ CallTransformAnnotations

SpecGroup == InitGroup /\ [][NextGroup]_vars

----------------------------------------------------------------------------
(* Direct calls of filterAnnotations on any annotation list and options *)

AnnotationTypes == {"highlight", "bookmark", "note"}

\* the colours of the annotations drawn, and the entries of the allow-lists
\* drawn ("blue" is the colour of no annotation drawn)
AnnotationColors == {"yellow", "green"}
AllowListColors == {"yellow", "green", "blue"}

\* the k-th annotation of a list: its id is its position, as in the test
\* fixture sampleAnnotations
FilterAnnotation(k, tc) ==
  [id |-> k,
   type |-> tc[1],
   color |-> tc[2],
   text |-> IF tc[1] = "bookmark" THEN null ELSE StrQuote,
   note |-> IF tc[1] = "note" THEN StrQuote ELSE null,
   location |-> null,
   chapter |-> null,
   createdAt |-> convertAppleDate([day |-> 9000, sec |-> 0]),
   modifiedAt |-> convertAppleDate([day |-> 9000, sec |-> 0])]

AnnotationLists ==
  UNION {{[k \in 1..n |-> FilterAnnotation(k, f[k])] :
            f \in [1..n -> AnnotationTypes \X AnnotationColors]} :
         n \in 0..MaxAnns}

FilterOptions ==
  [includeHighlights : BOOLEAN, includeBookmarks : BOOLEAN, includeNotes : BOOLEAN]
  \cup [includeHighlights : BOOLEAN, includeBookmarks : BOOLEAN,
        includeNotes : BOOLEAN,
        colorFilters : SeqsUpTo(AllowListColors, MaxColorFilters)]

InitFilter ==
  /\ pc = "call"
  /\ call \in [fn : {"filterAnnotations"},
                annotations : AnnotationLists,
                options : FilterOptions]
  /\ ret = None
  /\ annTable = <<>>
  /\ libTable = {}
  /\ rows = <<>>
  /\ books = <<>>
  /\ anns = <<>>
  /\ NoRun

CallFilterAnnotations ==
  /\ pc = "call"
  /\ call.fn = "filterAnnotations"
  /\ ret' = filterAnnotations(call.annotations, call.options)
  /\ pc' = "done"
  /\ UNCHANGED <<call, pipelineVars>>

NextFilter == CallFilterAnnotations

SpecFilter == InitFilter /\ [][NextFilter]_vars

----------------------------------------------------------------------------
(* Direct calls of findDatabases on any custom paths and file system *)

\* file names a directory may list
FileName ==
  [
   \* "AEAnnotation_1.sqlite"
   ann1 |->
     <<65, 69, 65, 110, 110, 111, 116, 97, 116, 105, 111, 110, 95, 49, 46,
       115, 113, 108, 105, 116, 101>>,
   \* "AEAnnotation_2.sqlite"
   ann2 |->
     <<65, 69, 65, 110, 110, 111, 116, 97, 116, 105, 111, 110, 95, 50, 46,
       115, 113, 108, 105, 116, 101>>,
   \* "AEAnnotation_1.sqlite-wal"
   annWal |->
     <<65, 69, 65, 110, 110, 111, 116, 97, 116, 105, 111, 110, 95, 49, 46,
       115, 113, 108, 105, 116, 101, 45, 119, 97, 108>>,
   \* "BKLibrary-1.sqlite"
   lib1 |->
     <<66, 75, 76, 105, 98, 114, 97, 114, 121, 45, 49, 46, 115, 113, 108,
       105, 116, 101>>,
   \* "BKLibrary-2.sqlite"
   lib2 |->
     <<66, 75, 76, 105, 98, 114, 97, 114, 121, 45, 50, 46, 115, 113, 108,
       105, 116, 101>>,
   \* "BKLibrary-1.sqlite-shm"
   libShm |->
     <<66, 75, 76, 105, 98, 114, 97, 114, 121, 45, 49, 46, 115, 113, 108,
       105, 116, 101, 45, 115, 104, 109>>,
   \* "notes.sqlite"
   notes |->
     <<110, 111, 116, 101, 115, 46, 115, 113, 108, 105, 116, 101>>
  ]

\* "/tmp/a.sqlite"
PathCustomA ==
  <<47, 116, 109, 112, 47, 97, 46, 115, 113, 108, 105, 116, 101>>

\* "/tmp/l.sqlite"
PathCustomL ==
  <<47, 116, 109, 112, 47, 108, 46, 115, 113, 108, 105, 116, 101>>

\* file names that may be in the annotations directory: two that match, a
\* write-ahead log (the prefix without the extension) and a foreign store
\* (the extension without the prefix)
AnnotationDirFiles == {FileName.ann1, FileName.ann2, FileName.annWal, FileName.notes}

LibraryDirFiles == {FileName.lib1, FileName.lib2, FileName.libShm, FileName.notes}

\* the listings of a directory: up to MaxFiles distinct names in any order
Listings(names) ==
  {l \in SeqsUpTo(names, MaxFiles) : \A i, j \in 1..Len(l) : i # j => l[i] # l[j]}

\* a file system: each of the two directories is missing or has a listing
FileSystems ==
  {[d \in {annotationsDir, libraryDir} |->
      IF d = annotationsDir THEN la ELSE ll] :
     la \in Listings(AnnotationDirFiles), ll \in Listings(LibraryDirFiles)}
  \cup {[d \in {annotationsDir} |-> la] : la \in Listings(AnnotationDirFiles)}
  \cup {[d \in {libraryDir} |-> ll] : ll \in Listings(LibraryDirFiles)}
  \cup {<<>>}

\* customPaths: each property is absent, the empty string or a path
CustomPaths ==
  {[k \in ks |-> IF k = "annotations" THEN a ELSE l] :
     ks \in SUBSET {"annotations", "library"},
     a \in {<<>>, PathCustomA}, l \in {<<>>, PathCustomL}}

InitLocate ==
  /\ pc = "call"
  /\ call \in [fn : {"findDatabases"}, customPaths : CustomPaths, fs : FileSystems]
  /\ ret = None
  /\ annTable = <<>>
  /\ libTable = {}
  /\ rows = <<>>
  /\ books = <<>>
  /\ anns = <<>>
  /\ NoRun

CallFindDatabases ==
  /\ pc = "call"
  /\ call.fn = "findDatabases"
  /\ ret' = findDatabases(call.customPaths, call.fs)
  /\ pc' = "done"
  /\ UNCHANGED <<call, pipelineVars>>

NextLocate == CallFindDatabases

SpecLocate == InitLocate /\ [][NextLocate]_vars

----------------------------------------------------------------------------
(* Direct calls of exportToJson *)

\* a highlight, a note, and an annotation whose dates are Invalid Dates
JsonAnnotations ==
  [plain |-> [id |-> 1, type |-> "highlight", color |-> "yellow",
              text |-> StrQuote, note |-> null, location |-> null,
              chapter |-> null,
              createdAt |-> [valid |-> TRUE, day |-> 20000, ms |-> 0],
              modifiedAt |-> [valid |-> TRUE, day |-> 20000, ms |-> 1000]],
   noted |-> [id |-> 2, type |-> "note", color |-> "green",
              text |-> StrQuote, note |-> StrQuote, location |-> null,
              chapter |-> null,
              createdAt |-> [valid |-> TRUE, day |-> 20001, ms |-> 0],
              modifiedAt |-> [valid |-> TRUE, day |-> 20001, ms |-> 0]],
   undated |-> [id |-> 3, type |-> "bookmark", color |-> "yellow",
                text |-> null, note |-> null, location |-> null,
                chapter |-> null,
                createdAt |-> InvalidDate, modifiedAt |-> InvalidDate]]

\* Books titled null, '', "T", and "A/" and "A-", which differ by a character
\* no file name may hold
JsonBooks ==
  [assetId : {null, StrB1, StrB2},
   title : {null, StrEmpty, StrTitleT, <<65, 47>>, <<65, 45>>}, author : {null},
   genre : {null},
   annotations : {<<>>, <<JsonAnnotations.plain>>, <<JsonAnnotations.noted>>,
                  <<JsonAnnotations.plain, JsonAnnotations.noted>>,
                  <<JsonAnnotations.undated>>}]

\* the lists of Books are as groupByBook builds them: no assetId twice
InitJson ==
  /\ pc = "call"
  /\ call \in [fn : {"exportToJson"},
               books : {bs \in SeqsUpTo(JsonBooks, MaxBooks) :
                          \A i \in 1..Len(bs) : \A j \in 1..Len(bs) :
                            bs[i].assetId = bs[j].assetId => i = j},
               outputPath : {Text.outMarkdown}, singleFile : BOOLEAN,
               now : {[valid |-> TRUE, day |-> 20400, ms |-> 0]}]
  /\ ret = None
  /\ annTable = <<>>
  /\ libTable = {}
  /\ rows = <<>>
  /\ books = <<>>
  /\ anns = <<>>
  /\ NoRun

CallExportToJson ==
  /\ pc = "call"
  /\ call.fn = "exportToJson"
  /\ ret' = exportToJson(call.books, call.outputPath, call.singleFile, call.now)
  /\ pc' = "done"
  /\ UNCHANGED <<call, pipelineVars>>

NextJson == CallExportToJson

SpecJson == InitJson /\ [][NextJson]_vars

----------------------------------------------------------------------------
(* A run of main: parseArgs, locate, queryAnnotations (open, attach,       *)
(* query, close), groupByBook, filter, export, exit.                       *)
(*                                                                         *)
(* A run starts in main at "parse". queryAnnotations builds its Database   *)
(* with the constructor (step "open"). The factory Database.create is the  *)
(* other way to a Database object (step "create"); the steps that follow   *)
(* the ATTACH are explored from the objects it returns.                    *)

StrTitleU == <<85>>

\* rows of ZBKLIBRARYASSET; ZASSETID is not declared unique
LibraryRows ==
  {[assetId |-> StrB1, title |-> StrTitleU, author |-> StrAuthorA, genre |-> StrGenreG],
   [assetId |-> StrB1, title |-> StrTitleT, author |-> null, genre |-> null],
   [assetId |-> StrB2, title |-> StrTitleT, author |-> StrAuthorA, genre |-> null]}

\* rows of ZAEANNOTATION, Z_PK being the position in the table
AnnotationRows ==
  [assetId : {null, StrB1, StrB2},
   text : {StrQuote},
   note : {null},
   style : {3},
   location : {null},
   createdAt : {[day |-> 9000, sec |-> 0], [day |-> 9001, sec |-> 0]},
   modifiedAt : {[day |-> 9001, sec |-> 0]},
   deleted : {0, 1}]

\* rows of every kind: a yellow highlight, a green bookmark, a yellow note
\* and a green highlight, in either of two books
KindRows ==
  {[assetId |-> a, text |-> k[1], note |-> k[2], style |-> k[3],
    location |-> null, createdAt |-> [day |-> 9000, sec |-> 0],
    modifiedAt |-> [day |-> 9000, sec |-> 0], deleted |-> 0] :
     a \in {StrB1, StrB2},
     k \in {<<StrQuote, null, 3>>, <<null, null, 1>>,
            <<StrQuote, StrQuote, 3>>, <<StrQuote, null, 1>>}}

SampleTable ==
  <<[assetId |-> StrB1, text |-> StrQuote, note |-> null, style |-> 3,
     location |-> null, createdAt |-> [day |-> 9000, sec |-> 0],
     modifiedAt |-> [day |-> 9001, sec |-> 0], deleted |-> 0]>>

SampleLibrary ==
  {[assetId |-> StrB1, title |-> StrTitleU, author |-> StrAuthorA, genre |-> StrGenreG],
   [assetId |-> StrB2, title |-> StrTitleT, author |-> StrAuthorA, genre |-> null]}

\* what detectRuntime, import('node:sqlite') and import('better-sqlite3')
\* find on the machine
Environments ==
  [bun : BOOLEAN, node : [major : {0, 18, 22, 23}, minor : {0, 4, 5}],
   nodeSqlite : BOOLEAN, betterSqlite3 : BOOLEAN]

EnvBun ==
  [bun |-> TRUE, node |-> [major |-> 22, minor |-> 5],
   nodeSqlite |-> FALSE, betterSqlite3 |-> FALSE]

\* the columns the SELECT of queryAnnotations names, and those of them
\* that hold the location and the book's metadata
Columns ==
  [selected |-> {"Z_PK", "ZANNOTATIONASSETID", "ZANNOTATIONSELECTEDTEXT",
                 "ZANNOTATIONNOTE", "ZANNOTATIONSTYLE", "ZFUTUREPROOFING5",
                 "ZANNOTATIONCREATIONDATE", "ZANNOTATIONMODIFICATIONDATE",
                 "ZANNOTATIONDELETED", "ZASSETID", "ZTITLE", "ZAUTHOR", "ZGENRE"},
   optional |-> {"ZFUTUREPROOFING5", "ZTITLE", "ZAUTHOR", "ZGENRE"}]

\* the tokens b asks for, or none
Given(b, tokens) == IF b THEN tokens ELSE <<>>

\* --annotations-db / --library-db, each absent, '' or a path; --help, -h,
\* and a --colors without its value
PathArgs ==
  {Given(ka, <<Text.annotationsDb, a>>) \o Given(kl, <<Text.libraryDb, l>>) :
     ka \in BOOLEAN, kl \in BOOLEAN,
     a \in {<<>>, PathCustomA}, l \in {<<>>, PathCustomL}}
  \cup {<<Text.help>>, <<Text.h, Text.libraryDb, PathCustomL>>, <<Text.colors>>}

\* 'json' followed by type flags and --colors, its value a colour or a
\* word that is no colour
FilterArgs ==
  {<<Text.json>> \o Given(h, <<Text.highlightsOnly>>)
     \o Given(b, <<Text.bookmarksOnly>>) \o Given(n, <<Text.notesOnly>>)
     \o Given(i, <<Text.includeBookmarks>>) \o c :
     h \in BOOLEAN, b \in BOOLEAN, n \in BOOLEAN, i \in BOOLEAN,
     c \in {<<>>} \cup {<<Text.colors, v>> :
                          v \in {Text.green, Text.blue, Text.red,
                                 Text.yellow \o <<44>> \o Text.red}}}

\* a format, --single-file and --output; 'xml' and 'JSON' are no ExportFormat
FormatArgs ==
  {f \o Given(sf, <<Text.singleFile>>) \o out :
     f \in {<<>>, <<Text.JSON>>, <<Text.csv>>, <<Text.format, Text.markdown>>,
            <<Text.f, Text.json>>, <<Text.f, Text.xml>>, <<Text.f, Text.JSON>>,
            <<Text.format>>},
     sf \in BOOLEAN,
     out \in {<<>>, <<Text.o, PathCustomA>>}}

\* file systems with at most one name in each directory
RunFileSystems ==
  {f \in FileSystems : \A d \in DOMAIN f : Len(f[d]) <= 1}

CustomLocated == [annotationsDb |-> PathCustomA, libraryDb |-> PathCustomL]

\* a run of main about to read its arguments ("parse"), or one holding the
\* options parsed from them and about to open the store ("create")
InitRun(start, a, f, e, at, lt, sc) ==
  /\ pc = start
  /\ call = None
  /\ ret = None
  /\ annTable = at
  /\ libTable = lt
  /\ rows = <<>>
  /\ books = <<>>
  /\ anns = <<>>
  /\ argv = a
  /\ cliOptions = IF start = "parse" THEN DefaultOptions ELSE parseArgs(a).options
  /\ fileSystem = f
  /\ env = e
  /\ schema = sc
  /\ located = IF start = "parse" THEN NoPaths ELSE CustomLocated
  /\ session = NewDatabaseObject(JsUndefined, JsUndefined)
  /\ engine = NoEngine
  /\ ops = <<>>
  /\ filteredBooks = <<>>
  /\ exported = <<>>
  /\ exit = Running

Init ==
  \/ \E a \in PathArgs, f \in RunFileSystems,
        e \in {e \in Environments : e.node = [major |-> 22, minor |-> 5]} :
       InitRun("parse", a, f, e, SampleTable, SampleLibrary, Columns.selected)
  \/ \E at \in SeqsUpTo(AnnotationRows, MaxTableRows), lt \in SUBSET LibraryRows :
       InitRun("create", <<>>, <<>>, EnvBun, at, lt, Columns.selected)
  \/ \E a \in FilterArgs, at \in SeqsUpTo(KindRows, MaxTableRows) :
       InitRun("create", a, <<>>, EnvBun, at, SampleLibrary, Columns.selected)
  \/ \E a \in FormatArgs, e \in Environments,
        missing \in {{}} \cup {{c} : c \in Columns.optional} :
       InitRun("create", a, <<>>, e, SampleTable, SampleLibrary,
               Columns.selected \ missing)

envVars == <<argv, cliOptions, fileSystem, env, schema, annTable, libTable>>

\* main's catch block: the error is reported and the process exits
Throw(at, error) ==
  /\ pc' = "exited"
  /\ exit' = Exited("error", at, error)

\* main: parseArgs(), which throws outside the try block, and --help
ParseArgs ==
  /\ pc = "parse"
  /\ LET res == parseArgs(argv) IN
       IF res.threw
       THEN Throw("parse", res.error) /\ UNCHANGED cliOptions
       ELSE /\ cliOptions' = res.options
            /\ IF res.options.help
               THEN pc' = "exited" /\ exit' = Exited("help", "parse", NoError)
               ELSE pc' = "locate" /\ UNCHANGED exit
  /\ UNCHANGED <<argv, fileSystem, env, schema, annTable, libTable, call, ret,
                 rows, books, anns, located, session, engine, ops,
                 filteredBooks, exported>>

\* main: findDatabases({ annotations: options.annotationsDb, ... })
Locate ==
  /\ pc = "locate"
  /\ LET res == findDatabases(customPathsOf(cliOptions), fileSystem) IN
       IF res.threw
       THEN Throw("locate", res.error) /\ UNCHANGED located
       ELSE located' = res.value /\ pc' = "open" /\ UNCHANGED exit
  /\ ops' = Append(ops, "locate")
  /\ UNCHANGED <<envVars, call, ret, rows, books, anns, session, engine,
                 filteredBooks, exported>>

\* queryAnnotations: new Database(annotationsDbPath, { readonly: true }),
\* the constructor storing its two arguments; no engine is involved
NewDatabase ==
  /\ pc = "open"
  /\ session' = NewDatabaseObject(JsString(located.annotationsDb),
                                   JsObject([readonly |-> TRUE]))
  /\ pc' = "attach"
  /\ UNCHANGED <<envVars, call, ret, rows, books, anns, located, engine, ops,
                 filteredBooks, exported, exit>>

\* Database.create(path, options): the engine chosen for the runtime; opened
\* tells whether the engine could open the file
create(path, createOptions, e, opened) ==
  LET runtime == detectRuntime(e) IN
  IF runtime = RuntimeType.BUN
  THEN IF opened
       THEN [threw |-> FALSE,
             value |-> NewDatabaseObject(JsInstance("BunDB"), runtime),
             engine |-> openEngine("bun:sqlite", path, createOptions, "readonly")]
       ELSE [threw |-> TRUE, error |-> SqliteError("open")]
  ELSE IF runtime = RuntimeType.NODE_MODERN /\ e.nodeSqlite
  THEN IF opened
       THEN [threw |-> FALSE,
             value |-> NewDatabaseObject(JsInstance("DatabaseSync"), runtime),
             engine |-> openEngine("node:sqlite", path, nodeOptions(createOptions),
                                   "readOnly")]
       ELSE [threw |-> TRUE, error |-> SqliteError("open")]
  ELSE IF e.betterSqlite3 /\ opened
  THEN [threw |-> FALSE,
        value |-> NewDatabaseObject(JsInstance("BetterSqlite3"), RuntimeType.NODE_LEGACY),
        engine |-> openEngine("better-sqlite3", path, createOptions, "readonly")]
  ELSE [threw |-> TRUE, error |-> NoSqliteError]

\* a Database object obtained from the factory for the annotations store
DatabaseCreate ==
  /\ pc = "create"
  /\ \E opened \in BOOLEAN :
       LET res == create(located.annotationsDb, [readonly |-> TRUE], env, opened) IN
         IF res.threw
         THEN Throw("create", res.error) /\ UNCHANGED <<session, engine>>
         ELSE /\ session' = res.value
              /\ engine' = res.engine
              /\ pc' = "attach"
              /\ UNCHANGED exit
  /\ ops' = Append(ops, "open")
  /\ UNCHANGED <<envVars, call, ret, rows, books, anns, located,
                 filteredBooks, exported>>

\* queryAnnotations: annotationsDb.run(`ATTACH DATABASE ... AS library`)
RunAttach ==
  /\ pc = "attach"
  /\ IF runMethod(session) \notin methodsOf(session.db)
     THEN Throw("attach", TypeErrorNotAFunction(runMethod(session)))
          /\ UNCHANGED engine
     ELSE \E ok \in BOOLEAN :
            IF ok
            THEN /\ engine' = [engine EXCEPT !.attached = located.libraryDb,
                                           !.statements = Append(@, "ATTACH")]
                 /\ pc' = "query"
                 /\ UNCHANGED exit
            ELSE /\ Throw("attach", SqliteError("ATTACH"))
                 /\ engine' = [engine EXCEPT !.statements = Append(@, "ATTACH")]
  /\ ops' = Append(ops, "attach")
  /\ UNCHANGED <<envVars, call, ret, rows, books, anns, located, session,
                 filteredBooks, exported>>

\* queryAnnotations: annotationsDb.query(query).all()
QueryAll ==
  /\ pc = "query"
  /\ IF queryMethod(session) \notin methodsOf(session.db)
     THEN Throw("query", TypeErrorNotAFunction(queryMethod(session)))
          /\ UNCHANGED <<rows, engine>>
     ELSE /\ engine' = [engine EXCEPT !.statements = Append(@, "SELECT")]
          /\ IF ~(Columns.selected \subseteq schema)
             THEN Throw("query", SqliteError("no such column")) /\ UNCHANGED rows
             ELSE \/ rows' \in queryAnnotations(annTable, libTable)
                     /\ pc' = "close"
                     /\ UNCHANGED exit
                  \/ Throw("query", SqliteError("SELECT")) /\ UNCHANGED rows
  /\ ops' = Append(ops, "query")
  /\ UNCHANGED <<envVars, call, ret, books, anns, located, session,
                 filteredBooks, exported>>

\* queryAnnotations: annotationsDb.close(); return results
Close ==
  /\ pc = "close"
  /\ IF "close" \notin methodsOf(session.db)
     THEN Throw("close", TypeErrorNotAFunction("close")) /\ UNCHANGED engine
     ELSE /\ engine' = [engine EXCEPT !.state = "closed"]
          /\ pc' = "rows"
          /\ UNCHANGED exit
  /\ ops' = Append(ops, "close")
  /\ UNCHANGED <<envVars, call, ret, rows, books, anns, located, session,
                 filteredBooks, exported>>

\* main: groupByBook(rawAnnotations)
GroupByBook ==
  /\ pc = "rows"
  /\ books' = groupByBook(rows)
  /\ pc' = "grouped"
  /\ UNCHANGED <<envVars, call, ret, rows, anns, located, session, engine,
                 ops, filteredBooks, exported, exit>>

\* the exported alternative: transformAnnotations(rawAnnotations)
TransformAnnotations ==
  /\ pc = "rows"
  /\ anns' = transformAnnotations(rows)
  /\ pc' = "transformed"
  /\ UNCHANGED <<envVars, call, ret, rows, books, located, session, engine,
                 ops, filteredBooks, exported, exit>>

\* main: the filtered copy of every Book; nothing left ends the run
FilterBooks ==
  /\ pc = "grouped"
  /\ filteredBooks' = filterBooks(books, filterOptionsOf(cliOptions))
  /\ IF Len(filteredBooks') = 0
     THEN pc' = "exited" /\ exit' = Exited("no-match", "filter", NoError)
     ELSE pc' = "export" /\ UNCHANGED exit
  /\ UNCHANGED <<envVars, call, ret, rows, books, anns, located, session,
                 engine, ops, exported>>

\* main: the exporter of the format is handed filteredBooks
Export ==
  /\ pc = "export"
  /\ IF exporterOf(cliOptions) = ""
     THEN Throw("export", UnknownFormatError(cliOptions.format)) /\ UNCHANGED exported
     ELSE /\ exported' = <<[exporter |-> exporterOf(cliOptions), books |-> filteredBooks]>>
          /\ pc' = "exited"
          /\ exit' = Exited("complete", "export", NoError)
  /\ UNCHANGED <<envVars, call, ret, rows, books, anns, located, session,
                 engine, ops, filteredBooks>>

Next ==
  \/ ParseArgs
  \/ Locate
  \/ NewDatabase
  \/ DatabaseCreate
  \/ RunAttach
  \/ QueryAll
  \/ Close
  \/ GroupByBook
  \/ TransformAnnotations
  \/ FilterBooks
  \/ Export

Spec == Init /\ [][Next]_vars

----------------------------------------------------------------------------
(* C1: the kind is "note" when the note is non-null and has a character    *)
(* that is not white space; otherwise "bookmark" when the text is null,    *)
(* empty or all white space; otherwise "highlight".                        *)

HasInk(s) == s # null /\ \E i \in 1..Len(s) : s[i] \notin WhiteSpace

KindPrecedence ==
  (pc = "done" /\ call.fn = "determineAnnotationType") =>
    ret.type = (IF HasInk(call.note) THEN "note"
                ELSE IF ~HasInk(call.text) THEN "bookmark"
                ELSE "highlight")

KindPrecedenceWitness ==
  /\ pc = "done"
  /\ call.fn = "determineAnnotationType"
  /\ HasInk(call.note)
  /\ HasInk(call.text)
  /\ ret.type = "note"

----------------------------------------------------------------------------
(* C2: codes 0..5 map to underline, green, blue, yellow, pink, purple and  *)
(* every other code, negative ones included, maps to yellow.               *)

ColorTable == <<"green", "blue", "yellow", "pink", "purple">>

ColorTotal ==
  (pc = "done" /\ call.fn = "mapAnnotationStyle") =>
    /\ call.style = 0 => ret.color = "underline"
    /\ call.style \in 1..5 => ret.color = ColorTable[call.style]
    /\ call.style \notin 0..5 => ret.color = "yellow"

ColorTotalWitness ==
  /\ pc = "done"
  /\ call.fn = "mapAnnotationStyle"
  /\ call.style < 0
  /\ ret.color = "yellow"

----------------------------------------------------------------------------
(* C3: convertAppleDate(0) is 2001-01-01T00:00:00Z, and converting s and   *)
(* reading the result back as seconds since the vendor epoch yields s, so  *)
(* that no two inputs convert to the same Date.                            *)

\* a <= b for two counts of seconds
SecondsLeq(a, b) == a.day < b.day \/ (a.day = b.day /\ a.sec <= b.sec)

VendorEpochStart ==
  [year |-> 2001, month |-> 1, date |-> 1,
   hours |-> 0, minutes |-> 0, seconds |-> 0, milliseconds |-> 0]

RoundTrips(s, date) ==
  /\ date.valid
  /\ toSeconds(date) = s
  /\ \A s2 \in Timestamps : convertAppleDate(s2) = date => s2 = s
  /\ (s = [day |-> 0, sec |-> 0]) => toISOString(date) = VendorEpochStart

\* C3 as stated: for all integer seconds
EpochRoundTripAllIntegers ==
  (pc = "done" /\ call.fn = "convertAppleDate") =>
    RoundTrips(call.timestamp, ret)

\* s + 978307200 lies within 8 640 000 000 000 seconds of 1970, the range of
\* Date; 978307200 seconds are 11323 days
InDateRange(s) ==
  /\ SecondsLeq([day |-> -100000000 - 11323, sec |-> 0], s)
  /\ SecondsLeq(s, [day |-> 100000000 - 11323, sec |-> 0])

\* C3 amended: for all integer seconds s whose shifted instant is in the
\* range of Date the round trip holds, and convertAppleDate(0) is
\* 2001-01-01T00:00:00Z; outside that range the result is the invalid Date.
EpochRoundTrip ==
  (pc = "done" /\ call.fn = "convertAppleDate") =>
    IF InDateRange(call.timestamp) THEN RoundTrips(call.timestamp, ret)
    ELSE ret = InvalidDate

EpochRoundTripWitness ==
  /\ pc = "done"
  /\ call.fn = "convertAppleDate"
  /\ call.timestamp.day < 0
  /\ InDateRange(call.timestamp)
  /\ toSeconds(ret) = call.timestamp
  /\ toISOString(ret).year = 2000

----------------------------------------------------------------------------
(* C4: groupByBook returns one Book per distinct asset identifier of the   *)
(* rows, in the order the identifiers are first seen, and the annotations  *)
(* of a Book are the rows of its identifier, in row order, none dropped,   *)
(* merged or deduplicated.                                                 *)

GroupDone == pc = "done" /\ call.fn = "groupByBook"

AssetIdsOf(in) == {in[k].assetId : k \in 1..Len(in)}

FirstSeen(in, a) ==
  CHOOSE k \in 1..Len(in) :
    in[k].assetId = a /\ \A j \in 1..(k - 1) : in[j].assetId # a

\* the positions of the rows of asset identifier a, in increasing order
RECURSIVE PositionsOf(_, _, _)
PositionsOf(in, a, k) ==
  IF k > Len(in) THEN <<>>
  ELSE (IF in[k].assetId = a THEN <<k>> ELSE <<>>) \o PositionsOf(in, a, k + 1)

CarriesRow(ann, raw) ==
  /\ ann.id = raw.id
  /\ ann.text = raw.text
  /\ ann.note = raw.note
  /\ ann.location = raw.location

GroupOnePerAssetInOrder ==
  GroupDone =>
    LET in == call.rawAnnotations
        out == ret
    IN /\ Len(out) = Cardinality(AssetIdsOf(in))
       /\ {out[i].assetId : i \in 1..Len(out)} = AssetIdsOf(in)
       /\ \A i, j \in 1..Len(out) :
            i < j => FirstSeen(in, out[i].assetId) < FirstSeen(in, out[j].assetId)
       /\ \A i \in 1..Len(out) :
            LET pos == PositionsOf(in, out[i].assetId, 1)
            IN /\ Len(out[i].annotations) > 0
               /\ Len(out[i].annotations) = Len(pos)
               /\ \A k \in 1..Len(pos) :
                    CarriesRow(out[i].annotations[k], in[pos[k]])

\* three rows, the rows of the first book not contiguous and of different id
GroupOnePerAssetInOrderWitness ==
  /\ GroupDone
  /\ Len(call.rawAnnotations) = 3
  /\ Len(ret) = 2
  /\ call.rawAnnotations[1].assetId = StrB2
  /\ call.rawAnnotations[2].assetId = StrB1
  /\ ret[1].assetId = StrB2
  /\ Len(ret[1].annotations) = 2
  /\ ret[1].annotations[1].id # ret[1].annotations[2].id

----------------------------------------------------------------------------
(* C5: every annotation is in exactly one Book: a row id occurs in the     *)
(* Books as often as in the input rows, and the annotations of all Books   *)
(* together number the input rows.                                         *)

RECURSIVE SumLen(_)
SumLen(bs) == IF bs = <<>> THEN 0 ELSE Len(Head(bs).annotations) + SumLen(Tail(bs))

OccurrencesInRows(in, id) == Cardinality({k \in 1..Len(in) : in[k].id = id})

OccurrencesInBooks(out, id) ==
  Cardinality({p \in {<<i, k>> : i \in 1..Len(out), k \in 1..MaxRows + 1} :
                 /\ p[2] <= Len(out[p[1]].annotations)
                 /\ out[p[1]].annotations[p[2]].id = id})

GroupNoSharing ==
  GroupDone =>
    LET in == call.rawAnnotations
        out == ret
    IN /\ SumLen(out) = Len(in)
       /\ \A id \in 1..(MaxId + 1) :
            OccurrencesInBooks(out, id) = OccurrencesInRows(in, id)

\* a row id repeated in the input: once in each of two books, and twice in one
GroupNoSharingWitness ==
  /\ GroupDone
  /\ Len(ret) = 2
  /\ SumLen(ret) = 3
  /\ OccurrencesInRows(call.rawAnnotations, 1) = 3
  /\ OccurrencesInBooks(ret, 1) = 3

----------------------------------------------------------------------------
(* C6: the asset identifier is a unique key of the Books of one result,    *)
(* and it is never empty or null.                                          *)

UniqueAssetIds(out) ==
  \A i, j \in 1..Len(out) : out[i].assetId = out[j].assetId => i = j

IsEmptyId(a) == a = null \/ a = <<>>

\* C6 as stated: for every input row list
BookKeyUniqueNeverEmpty ==
  GroupDone =>
    /\ UniqueAssetIds(ret)
    /\ \A i \in 1..Len(ret) : ~IsEmptyId(ret[i].assetId)

\* C6 amended: the asset identifier is a unique key, and a Book has an empty
\* or null asset identifier exactly when an input row has that identifier
\* (never, when every input row has a non-empty one).
BookKeyUnique ==
  GroupDone =>
    LET in == call.rawAnnotations
    IN /\ UniqueAssetIds(ret)
       /\ \A a \in {null, <<>>} :
            (\E i \in 1..Len(ret) : ret[i].assetId = a)
              <=> (\E k \in 1..Len(in) : in[k].assetId = a)

\* rows of one asset identifier with different titles form one Book, next
\* to a Book of the empty identifier
BookKeyUniqueWitness ==
  /\ GroupDone
  /\ Len(ret) = 2
  /\ \E k1, k2 \in 1..Len(call.rawAnnotations) :
       /\ call.rawAnnotations[k1].assetId = StrB1
       /\ call.rawAnnotations[k2].assetId = StrB1
       /\ call.rawAnnotations[k1].title # call.rawAnnotations[k2].title
  /\ \E i \in 1..2 : ret[i].assetId = <<>>

----------------------------------------------------------------------------
(* C7: a row of the annotations store whose delete flag is 1 never becomes *)
(* an Annotation of the query / transform pipeline.                        *)

\* the annotations the pipeline has produced so far
RECURSIVE Flatten(_)
Flatten(bs) == IF bs = <<>> THEN <<>> ELSE Head(bs).annotations \o Flatten(Tail(bs))

PipelineAnnotations == Flatten(books) \o anns

SoftDeleteExcluded ==
  \A pk \in 1..Len(annTable) :
    annTable[pk].deleted = 1 =>
      /\ \A k \in 1..Len(rows) : rows[k].id # pk
      /\ \A k \in 1..Len(PipelineAnnotations) : PipelineAnnotations[k].id # pk

\* a deleted row and a live row of one book: only the live one comes out
SoftDeleteExcludedWitness ==
  /\ pc = "grouped"
  /\ Len(annTable) = 2
  /\ annTable[1].deleted = 1
  /\ annTable[2].deleted = 0
  /\ annTable[1].assetId = annTable[2].assetId
  /\ Len(PipelineAnnotations) >= 1
  /\ \A k \in 1..Len(PipelineAnnotations) : PipelineAnnotations[k].id = 2

----------------------------------------------------------------------------
(* C8: an annotation is kept exactly when the flag of its kind is true     *)
(* and, when a non-empty colour allow-list is supplied, its colour is in   *)
(* the list; an absent or empty allow-list restricts nothing.              *)

FilterDone == pc = "done" /\ call.fn = "filterAnnotations"

KindFlag(type, options) ==
  CASE type = "highlight" -> options.includeHighlights
    [] type = "bookmark" -> options.includeBookmarks
    [] type = "note" -> options.includeNotes

AllowListGiven(options) == "colorFilters" \in DOMAIN options

AllowList(options) ==
  IF AllowListGiven(options)
  THEN {options.colorFilters[i] : i \in 1..Len(options.colorFilters)}
  ELSE {}

Kept(out, k) == \E j \in 1..Len(out) : out[j].id = k

FilterKeepsIff ==
  FilterDone =>
    \A k \in 1..Len(call.annotations) :
      Kept(ret, k) <=>
        /\ KindFlag(call.annotations[k].type, call.options)
        /\ AllowList(call.options) # {} =>
             call.annotations[k].color \in AllowList(call.options)

\* bookmarks kept and highlights of the same colour dropped, under a
\* non-empty allow-list that drops some bookmark too
FilterKeepsIffWitness ==
  /\ FilterDone
  /\ call.options.includeBookmarks
  /\ ~call.options.includeHighlights
  /\ AllowList(call.options) = {"green"}
  /\ \E k \in 1..Len(call.annotations) :
       /\ call.annotations[k].type = "bookmark"
       /\ call.annotations[k].color = "yellow"
  /\ \E k \in 1..Len(call.annotations) :
       /\ call.annotations[k].type = "highlight"
       /\ call.annotations[k].color = "green"
  /\ Len(ret) = 1
  /\ ret[1].type = "bookmark"

----------------------------------------------------------------------------
(* C9: the result is a subsequence of the input (elements of the input,    *)
(* in their order, none twice), and under all flags true and no allow-list *)
(* it is the input unchanged.                                              *)

FilterSubsequence ==
  FilterDone =>
    /\ \A j \in 1..Len(ret) :
         /\ ret[j].id \in 1..Len(call.annotations)
         /\ ret[j] = call.annotations[ret[j].id]
    /\ \A i, j \in 1..Len(ret) : i < j => ret[i].id < ret[j].id
    /\ ( /\ call.options.includeHighlights
         /\ call.options.includeBookmarks
         /\ call.options.includeNotes
         /\ ~AllowListGiven(call.options) ) => ret = call.annotations

\* a proper subsequence of two elements that are not neighbours in the input
FilterSubsequenceWitness ==
  /\ FilterDone
  /\ Len(call.annotations) = 3
  /\ Len(ret) = 2
  /\ ret[1].id = 1
  /\ ret[2].id = 3

----------------------------------------------------------------------------
(* C10: under an allow-list that holds no colour present in the input the  *)
(* result is empty.                                                        *)

ColorsPresent(A) == {A[k].color : k \in 1..Len(A)}

\* C10 as stated: for every allow-list supplied
DisjointAllowListEmpties ==
  (FilterDone /\ AllowListGiven(call.options)) =>
    (AllowList(call.options) \cap ColorsPresent(call.annotations) = {}
       => ret = <<>>)

\* C10 amended: under a non-empty allow-list that holds no colour present in
\* the input the result is empty, whatever the flags; the empty allow-list
\* restricts nothing.
NonEmptyDisjointAllowListEmpties ==
  (FilterDone /\ AllowListGiven(call.options)) =>
    (( /\ Len(call.options.colorFilters) > 0
       /\ AllowList(call.options) \cap ColorsPresent(call.annotations) = {} )
       => ret = <<>>)

\* every kind admitted, yet nothing passes the allow-list
NonEmptyDisjointAllowListEmptiesWitness ==
  /\ FilterDone
  /\ AllowListGiven(call.options)
  /\ AllowList(call.options) = {"blue", "green"}
  /\ call.options.includeHighlights
  /\ call.options.includeBookmarks
  /\ call.options.includeNotes
  /\ Len(call.annotations) = 3
  /\ ColorsPresent(call.annotations) = {"yellow"}
  /\ ret = <<>>

----------------------------------------------------------------------------
(* C11: when a path is supplied for both stores, findDatabases returns     *)
(* exactly those two paths, unchanged, and touches no file system: it      *)
(* succeeds whatever directories exist. A supplied path is a non-empty     *)
(* string.                                                                 *)

LocateDone == pc = "done" /\ call.fn = "findDatabases"

Supplied(customPaths, key) ==
  key \in DOMAIN customPaths /\ Len(customPaths[key]) > 0

BothSupplied ==
  Supplied(call.customPaths, "annotations") /\ Supplied(call.customPaths, "library")

OverridesReturnedUntouched ==
  (LocateDone /\ BothSupplied) =>
    /\ ~ret.threw
    /\ ret.value.annotationsDb = call.customPaths.annotations
    /\ ret.value.libraryDb = call.customPaths.library
    /\ ret.fsLog = <<>>

\* both paths supplied on a machine with neither directory
OverridesReturnedUntouchedWitness ==
  /\ LocateDone
  /\ BothSupplied
  /\ DOMAIN call.fs = {}
  /\ ~ret.threw
  /\ ret.value.annotationsDb = PathCustomA

----------------------------------------------------------------------------
(* C12: without both paths supplied, findDatabases succeeds exactly when   *)
(* both directories exist and each lists a file with the store's prefix    *)
(* and the extension .sqlite; otherwise it throws, returns no paths, and   *)
(* the message ends with the path of a directory that is missing or has    *)
(* no such file.                                                           *)

HasStoreFile(fs, dir, prefix) ==
  /\ dir \in DOMAIN fs
  /\ \E i \in 1..Len(fs[dir]) :
       startsWith(fs[dir][i], prefix) /\ endsWith(fs[dir][i], SqliteSuffix)

NamesLackingDirectory(message, fs) ==
  \/ endsWith(message, annotationsDir)
       /\ ~HasStoreFile(fs, annotationsDir, AnnotationPrefix)
  \/ endsWith(message, libraryDir)
       /\ ~HasStoreFile(fs, libraryDir, LibraryPrefix)

LocateFailsNamingDirectory ==
  (LocateDone /\ ~BothSupplied) =>
    /\ ~ret.threw <=> (HasStoreFile(call.fs, annotationsDir, AnnotationPrefix)
                        /\ HasStoreFile(call.fs, libraryDir, LibraryPrefix))
    /\ ret.threw =>
         /\ "value" \notin DOMAIN ret
         /\ NamesLackingDirectory(ret.error.message, call.fs)

\* the annotations directory is fine, the library directory lists only
\* files that do not match: the error names the library directory
LocateFailsNamingDirectoryWitness ==
  /\ LocateDone
  /\ ~BothSupplied
  /\ HasStoreFile(call.fs, annotationsDir, AnnotationPrefix)
  /\ libraryDir \in DOMAIN call.fs
  /\ Len(call.fs[libraryDir]) > 0
  /\ ret.threw
  /\ endsWith(ret.error.message, libraryDir)

----------------------------------------------------------------------------
(* C13: when findDatabases scans, the path it returns for a store is the   *)
(* directory joined with the earliest file of the listing that matches,    *)
(* however many match.                                                     *)

IsFirstMatch(listing, prefix, i) ==
  /\ i \in 1..Len(listing)
  /\ startsWith(listing[i], prefix) /\ endsWith(listing[i], SqliteSuffix)
  /\ \A j \in 1..(i - 1) :
       ~(startsWith(listing[j], prefix) /\ endsWith(listing[j], SqliteSuffix))

MatchCount(listing, prefix) ==
  Cardinality({i \in 1..Len(listing) :
                 startsWith(listing[i], prefix) /\ endsWith(listing[i], SqliteSuffix)})

LocatePicksFirstListed ==
  (LocateDone /\ ~BothSupplied /\ ~ret.threw) =>
    /\ \E i \in 1..Len(call.fs[annotationsDir]) :
         /\ IsFirstMatch(call.fs[annotationsDir], AnnotationPrefix, i)
         /\ ret.value.annotationsDb = join(annotationsDir, call.fs[annotationsDir][i])
    /\ \E i \in 1..Len(call.fs[libraryDir]) :
         /\ IsFirstMatch(call.fs[libraryDir], LibraryPrefix, i)
         /\ ret.value.libraryDb = join(libraryDir, call.fs[libraryDir][i])

\* two matching files after one that does not match, the later-named first
LocatePicksFirstListedWitness ==
  /\ LocateDone
  /\ ~BothSupplied
  /\ ~ret.threw
  /\ MatchCount(call.fs[annotationsDir], AnnotationPrefix) = 2
  /\ call.fs[annotationsDir] = <<FileName.annWal, FileName.ann2, FileName.ann1>>
  /\ MatchCount(call.fs[libraryDir], LibraryPrefix) = 2
  /\ ret.value.annotationsDb = join(annotationsDir, FileName.ann2)

----------------------------------------------------------------------------
(* C14: in a run of main that located its stores, the annotations store    *)
(* is the path given with --annotations-db when one was given, and the     *)
(* library store is the path given with --library-db when one was given,   *)
(* whether one option or both were given.                                  *)

\* main has called findDatabases and got the two paths
LocatedByMain == ops # <<>> /\ ops[1] = "locate" /\ located # NoPaths

OverridePathsRead ==
  LocatedByMain =>
    /\ Supplied(cliOptions, "annotationsDb") =>
         located.annotationsDb = cliOptions.annotationsDb
    /\ Supplied(cliOptions, "libraryDb") =>
         located.libraryDb = cliOptions.libraryDb

----------------------------------------------------------------------------
(* C15: the store operations of a run are issued in the order locate,      *)
(* open, attach, query, close, none skipped and none repeated, and the     *)
(* session is closed once queryAnnotations has returned its rows.          *)

OpRank(op) ==
  CASE op = "locate" -> 1
    [] op = "open" -> 2
    [] op = "attach" -> 3
    [] op = "query" -> 4
    [] op = "close" -> 5

RowsReturned == pc \in {"rows", "grouped", "transformed", "export"}

StoreOpsInOrder ==
  /\ ops # <<>> => OpRank(ops[1]) <= 2
  /\ \A i \in 1..(Len(ops) - 1) : OpRank(ops[i + 1]) = OpRank(ops[i]) + 1
  /\ RowsReturned => engine.state = "closed"

----------------------------------------------------------------------------
(* C16: when the process has ended and a session had been opened, the      *)
(* session is closed, whatever failed after the open.                      *)

----------------------------------------------------------------------------
(* C17: whatever engine serves the run, a connection to the annotations    *)
(* store is read-only, and the statements handed to it are at most one     *)
(* ATTACH followed by at most one SELECT: nothing that writes.             *)

IsPrefix(s, t) == Len(s) <= Len(t) /\ s = SubSeq(t, 1, Len(s))

ReadOnlyRun ==
  /\ engine.state # "none" =>
       /\ engine.readonly
       /\ engine.path = located.annotationsDb
  /\ IsPrefix(engine.statements, <<"ATTACH", "SELECT">>)

\* the node:sqlite engine, whose option is spelt readOnly, after the query
ReadOnlyRunWitness ==
  /\ session.db = JsInstance("DatabaseSync")
  /\ engine.state = "closed"
  /\ engine.readonly
  /\ engine.statements = <<"ATTACH", "SELECT">>

----------------------------------------------------------------------------
(* C18: a run that fails in the locator or in queryAnnotations ends with a *)
(* non-zero status, has issued no store operation twice, has built no Book *)
(* and has called no exporter.                                             *)

FailedBeforeRows ==
  /\ exit.exited
  /\ exit.report = "error"
  /\ exit.at \in {"locate", "create", "attach", "query", "close"}

FailureIsFatal ==
  FailedBeforeRows =>
    /\ exit.code # 0
    /\ \A i, j \in 1..Len(ops) : i # j => ops[i] # ops[j]
    /\ rows = <<>>
    /\ books = <<>>
    /\ filteredBooks = <<>>
    /\ exported = <<>>

\* the locator found no annotations directory
FailureIsFatalWitness ==
  /\ FailedBeforeRows
  /\ exit.at = "locate"
  /\ ~existsSync(fileSystem, annotationsDir)
  /\ exit.code = 1
  /\ exported = <<>>

----------------------------------------------------------------------------
(* C19: a run whose query returned and in which no annotation passes the   *)
(* filter (there may be no row at all) ends with status 0, reports that    *)
(* nothing matched, which is not the error report, and calls no exporter;  *)
(* no other run reports that nothing matched.                              *)

QueryReturned == ops # <<>> /\ ops[Len(ops)] = "close" /\ engine.state = "closed"

NothingPasses ==
  \A i \in 1..Len(books) : \A k \in 1..Len(books[i].annotations) :
    ~filterCallback(books[i].annotations[k], filterOptionsOf(cliOptions))

NoMatchExitsZero ==
  exit.exited =>
    /\ (QueryReturned /\ NothingPasses) =>
         /\ exit.report = "no-match"
         /\ exit.code = 0
         /\ exported = <<>>
    /\ exit.report = "no-match" => (QueryReturned /\ NothingPasses)

\* two rows came back and the flags exclude both
NoMatchExitsZeroWitness ==
  /\ exit.exited
  /\ QueryReturned
  /\ Len(rows) = 2
  /\ Len(books) >= 1
  /\ NothingPasses
  /\ exit.report = "no-match"
  /\ exit.code = 0
  /\ exported = <<>>

----------------------------------------------------------------------------
(* C20: filteredBooks holds, in the order of allBooks, one copy of every   *)
(* Book with an annotation that passes the filter: same assetId, title,    *)
(* author and genre, and the passing annotations as its list. A Book       *)
(* handed to an exporter has an annotation, and all of its annotations     *)
(* pass.                                                                   *)

Filtered == pc = "export" \/ (exit.exited /\ exit.at \in {"filter", "export"})

KeptBooks ==
  {i \in 1..Len(books) :
     \E k \in 1..Len(books[i].annotations) :
       filterCallback(books[i].annotations[k], filterOptionsOf(cliOptions))}

FilteredBooksReattached ==
  Filtered =>
    /\ Len(filteredBooks) = Cardinality(KeptBooks)
    /\ \A i \in KeptBooks :
         LET copy == filteredBooks[Cardinality({j \in KeptBooks : j <= i})] IN
           /\ copy.assetId = books[i].assetId
           /\ copy.title = books[i].title
           /\ copy.author = books[i].author
           /\ copy.genre = books[i].genre
           /\ copy.annotations =
                filterAnnotations(books[i].annotations, filterOptionsOf(cliOptions))
    /\ \A e \in 1..Len(exported) :
         /\ exported[e].books = filteredBooks
         /\ \A b \in 1..Len(exported[e].books) :
              /\ Len(exported[e].books[b].annotations) >= 1
              /\ \A k \in 1..Len(exported[e].books[b].annotations) :
                   filterCallback(exported[e].books[b].annotations[k],
                                  filterOptionsOf(cliOptions))

\* of two Books the first is dropped and the second handed to the exporter
FilteredBooksReattachedWitness ==
  /\ exported # <<>>
  /\ Len(books) = 2
  /\ KeptBooks = {2}
  /\ Len(exported[1].books) = 1
  /\ exported[1].books[1].assetId = books[2].assetId

----------------------------------------------------------------------------
(* C21: a run given --highlights-only exports only highlights, a run given *)
(* --bookmarks-only only bookmarks, a run given --notes-only only notes,   *)
(* whatever other flags are on the command line.                           *)

HasArg(flag) == \E i \in 1..Len(argv) : argv[i] = flag

\* the kinds of the annotations handed to an exporter
ExportedKinds ==
  UNION {{Flatten(exported[e].books)[k].type :
            k \in 1..Len(Flatten(exported[e].books))} : e \in 1..Len(exported)}

----------------------------------------------------------------------------
(* C22: in a run given neither --include-bookmarks nor --bookmarks-only no *)
(* bookmark is kept by the filter or handed to an exporter; in a run given *)
(* no type-only flag either, the annotations kept are the highlights and   *)
(* the notes whose colour passes --colors, all of them.                    *)

NoBookmarkFlag == ~HasArg(Text.includeBookmarks) /\ ~HasArg(Text.bookmarksOnly)

NoTypeOnlyFlag ==
  /\ ~HasArg(Text.highlightsOnly)
  /\ ~HasArg(Text.bookmarksOnly)
  /\ ~HasArg(Text.notesOnly)

ColorPasses(a) ==
  \/ "colors" \notin DOMAIN cliOptions
  \/ cliOptions.colors = <<>>
  \/ \E i \in 1..Len(cliOptions.colors) : cliOptions.colors[i] = a.color

BookmarksExcludedByDefault ==
  (Filtered /\ NoBookmarkFlag) =>
    /\ \A k \in 1..Len(Flatten(filteredBooks)) :
         Flatten(filteredBooks)[k].type # "bookmark"
    /\ "bookmark" \notin ExportedKinds
    /\ NoTypeOnlyFlag =>
         Flatten(filteredBooks) =
           SelectSeq(Flatten(books),
                     LAMBDA a : a.type \in {"highlight", "note"} /\ ColorPasses(a))

\* a bookmark, a highlight and no flag: the highlight alone is exported
BookmarksExcludedByDefaultWitness ==
  /\ exported # <<>>
  /\ NoBookmarkFlag
  /\ NoTypeOnlyFlag
  /\ \E k \in 1..Len(Flatten(books)) : Flatten(books)[k].type = "bookmark"
  /\ ExportedKinds = {"highlight"}

----------------------------------------------------------------------------
(* C23: a value of --colors that is not one of yellow, green, blue, pink,  *)
(* purple and underline is rejected: the colour list the filter is given   *)
(* holds those six words only.                                             *)

ValidColors == {"yellow", "green", "blue", "pink", "purple", "underline"}

----------------------------------------------------------------------------
(* C24: when a store lacks an optional column the SELECT names (location,  *)
(* title, author or genre), the query does not fail for it, and the field  *)
(* of that column is null in every row it returns.                         *)

MissingColumns == Columns.selected \ schema

\* the field of a row that holds the column
FieldOfColumn ==
  [ZFUTUREPROOFING5 |-> "location", ZTITLE |-> "title",
   ZAUTHOR |-> "author", ZGENRE |-> "genre"]

QueryIssued == ops # <<>> /\ "query" \in {ops[i] : i \in 1..Len(ops)}

----------------------------------------------------------------------------
(* C25: exportToJson with singleFile = false returns one path for every    *)
(* Book that has an annotation, all paths differ, and the file at a Book's *)
(* path holds that Book's metadata and exactly its annotations once the    *)
(* call has returned.                                                      *)

MultipleJsonReturned ==
  /\ pc = "done"
  /\ call.fn = "exportToJson"
  /\ ~call.singleFile
  /\ ~ret.threw

\* the positions in call.books of the Books that have an annotation
BooksWithAnnotations ==
  {i \in 1..Len(call.books) : Len(call.books[i].annotations) > 0}

\* the data of the last write to the path
FileAt(path) ==
  LET writes == {w \in 1..Len(ret.fsLog) :
                   ret.fsLog[w].op = "writeFileSync" /\ ret.fsLog[w].path = path}
  IN ret.fsLog[CHOOSE w \in writes : \A v \in writes : v <= w].data

OneJsonFilePerBook ==
  MultipleJsonReturned =>
    /\ Len(ret.value) = Cardinality(BooksWithAnnotations)
    /\ \A k \in 1..Len(ret.value) : \A l \in 1..Len(ret.value) :
         ret.value[k] = ret.value[l] => k = l
    /\ \A i \in BooksWithAnnotations :
         LET path == ret.value[Cardinality({j \in BooksWithAnnotations : j <= i})]
             book == call.books[i]
         IN /\ FileAt(path).assetId = book.assetId
            /\ FileAt(path).title = book.title
            /\ FileAt(path).author = book.author
            /\ FileAt(path).genre = book.genre
            /\ FileAt(path).annotationCount = Len(book.annotations)
            /\ Len(FileAt(path).annotations) = Len(book.annotations)
            /\ \A a \in 1..Len(book.annotations) :
                 FileAt(path).annotations[a].id = book.annotations[a].id

----------------------------------------------------------------------------
(* C26: Database.create opens the store with bun:sqlite under Bun, with    *)
(* node:sqlite under Node.js 22.5 or newer when it loads, and with         *)
(* better-sqlite3 otherwise; when no binding loads it fails with 'No       *)
(* SQLite implementation available'. The object it returns holds the       *)
(* instance of the binding that opened the store and calls only methods    *)
(* that instance has.                                                      *)

CreateCalled == ops # <<>> /\ ops[1] = "open"

NodeAtLeast22_5 ==
  env.node.major > 22 \/ (env.node.major = 22 /\ env.node.minor >= 5)

ExpectedBinding ==
  IF env.bun THEN "bun:sqlite"
  ELSE IF NodeAtLeast22_5 /\ env.nodeSqlite THEN "node:sqlite"
  ELSE IF env.betterSqlite3 THEN "better-sqlite3"
  ELSE "none"

ClassOfBinding ==
  [b \in {"bun:sqlite", "node:sqlite", "better-sqlite3"} |->
     CASE b = "bun:sqlite" -> "BunDB"
       [] b = "node:sqlite" -> "DatabaseSync"
       [] OTHER -> "BetterSqlite3"]

CreateSelectsBinding ==
  CreateCalled =>
    /\ engine.state # "none" =>
         /\ engine.binding = ExpectedBinding
         /\ session.db = JsInstance(ClassOfBinding[engine.binding])
         /\ {runMethod(session), queryMethod(session), "close"}
              \subseteq methodsOf(session.db)
         /\ (runMethod(session) = "run") = (engine.binding = "bun:sqlite")
         /\ (queryMethod(session) = "query") = (engine.binding = "bun:sqlite")
    /\ ExpectedBinding = "none" =>
         exit.exited /\ exit.at = "create" /\ exit.error = NoSqliteError
    /\ exit.exited => exit.error.name # "TypeError"

\* Node.js 22.5 where node:sqlite does not load: better-sqlite3 opened the
\* store and has answered the query
CreateSelectsBindingWitness ==
  /\ CreateCalled
  /\ ~env.bun
  /\ NodeAtLeast22_5
  /\ ~env.nodeSqlite
  /\ engine.binding = "better-sqlite3"
  /\ session.runtime = RuntimeType.NODE_LEGACY
  /\ "query" \in {ops[i] : i \in 1..Len(ops)}
  /\ Len(rows) > 0

----------------------------------------------------------------------------
(* C27: when the binding of the runtime loads but cannot open the store,   *)
(* the error that ends the run is the engine's own error, on every         *)
(* binding.                                                                *)

OpenFailed == exit.exited /\ exit.at = "create" /\ ExpectedBinding # "none"

OpenFailureSurfacedVerbatim ==
  OpenFailed =>
    /\ exit.error = SqliteError("open")
    /\ exit.code = 1

----------------------------------------------------------------------------
(* C28: the title, author and genre of a Book are those of the first row   *)
(* of its asset identifier, whatever the later rows of that identifier     *)
(* carry; a row without title, author and genre forms a Book as any other  *)
(* row does, the Book of its asset identifier, with null metadata when it  *)
(* is the first.                                                           *)

NoMetadata(raw) == raw.title = null /\ raw.author = null /\ raw.genre = null

MetadataOfFirstRow ==
  GroupDone =>
    LET in == call.rawAnnotations
        out == ret
    IN /\ \A i \in 1..Len(out) :
            LET first == in[FirstSeen(in, out[i].assetId)] IN
              /\ out[i].title = first.title
              /\ out[i].author = first.author
              /\ out[i].genre = first.genre
       /\ \A k \in 1..Len(in) :
            NoMetadata(in[k]) =>
              \E i \in 1..Len(out) :
                /\ out[i].assetId = in[k].assetId
                /\ \A j \in 1..Len(out) : out[j].assetId = in[k].assetId => j = i
                /\ (FirstSeen(in, in[k].assetId) = k) => NoMetadata(out[i])

\* a Book whose first row has a title and whose second row has none, and a
\* Book formed by a row without metadata
MetadataOfFirstRowWitness ==
  /\ GroupDone
  /\ Len(call.rawAnnotations) = 3
  /\ Len(ret) = 2
  /\ call.rawAnnotations[1].assetId = call.rawAnnotations[3].assetId
  /\ ~NoMetadata(call.rawAnnotations[1])
  /\ NoMetadata(call.rawAnnotations[3])
  /\ NoMetadata(call.rawAnnotations[2])
  /\ ret[1].title = StrTitleT
  /\ NoMetadata(ret[2])

----------------------------------------------------------------------------
(* C29: when the rows are in the order of the query (by title, then by     *)
(* creation timestamp) and every asset identifier has one title, the Books *)
(* of groupByBook are in non-decreasing title order and the annotations of *)
(* every Book in non-decreasing creation-time order, and so are the Books  *)
(* and annotations left by the filter.                                     *)

Grouped == pc = "grouped" \/ Filtered

RowsInQueryOrder ==
  \A i \in 1..Len(rows) : \A j \in 1..Len(rows) :
    i < j => ~orderByLess(rows[j], rows[i])

ConsistentTitles ==
  \A i \in 1..Len(rows) : \A j \in 1..Len(rows) :
    rows[i].assetId = rows[j].assetId => rows[i].title = rows[j].title

DateLess(d1, d2) == d1.day < d2.day \/ (d1.day = d2.day /\ d1.ms < d2.ms)

InTitleOrder(bs) ==
  \A i \in 1..Len(bs) : \A j \in 1..Len(bs) :
    i < j => ~TextLess(bs[j].title, bs[i].title)

InCreationOrder(bs) ==
  \A b \in 1..Len(bs) :
    \A k \in 1..Len(bs[b].annotations) : \A l \in 1..Len(bs[b].annotations) :
      k < l => ~DateLess(bs[b].annotations[l].createdAt, bs[b].annotations[k].createdAt)

OrdersPreserved ==
  (Grouped /\ RowsInQueryOrder /\ ConsistentTitles) =>
    /\ InTitleOrder(books)
    /\ InCreationOrder(books)
    /\ Filtered => (InTitleOrder(filteredBooks) /\ InCreationOrder(filteredBooks))

\* two Books whose rows the query put in the order of their titles, against
\* the order of the table, both handed to the exporter
OrdersPreservedWitness ==
  /\ exported # <<>>
  /\ ConsistentTitles
  /\ Len(rows) = 2
  /\ rows[1].id = 2
  /\ rows[2].id = 1
  /\ Len(filteredBooks) = 2
  /\ TextLess(filteredBooks[1].title, filteredBooks[2].title)

----------------------------------------------------------------------------
(* C30: the annotation lists of groupByBook(rows), one after the other,    *)
(* hold the annotations of transformAnnotations(rows), each as often, and  *)
(* in the same order when rows of one asset identifier are contiguous;     *)
(* every Annotation of either carries its row's id, text, note and         *)
(* location, a null chapter and both timestamps converted.                 *)

TransformDone == pc = "done" /\ call.fn = "transformAnnotations"

Count(seq, x) == Cardinality({i \in 1..Len(seq) : seq[i] = x})

Contiguous(in) ==
  \A i \in 1..Len(in) : \A j \in 1..Len(in) : \A k \in 1..Len(in) :
    (i < j /\ j < k /\ in[i].assetId = in[k].assetId) =>
      in[j].assetId = in[i].assetId

Normalized(ann, raw) ==
  /\ CarriesRow(ann, raw)
  /\ ann.chapter = null
  /\ ann.createdAt = convertAppleDate(raw.createdAt)
  /\ ann.modifiedAt = convertAppleDate(raw.modifiedAt)

NormalizeIdentically ==
  /\ TransformDone =>
       /\ Len(ret) = Len(call.rawAnnotations)
       /\ \A k \in 1..Len(ret) : Normalized(ret[k], call.rawAnnotations[k])
  /\ GroupDone =>
       LET in == call.rawAnnotations
           flat == Flatten(ret)
           direct == transformAnnotations(in)
       IN /\ Len(flat) = Len(direct)
          /\ \A k \in 1..Len(direct) :
               Count(flat, direct[k]) = Count(direct, direct[k])
          /\ Contiguous(in) => flat = direct
          /\ \A i \in 1..Len(ret) :
               LET pos == PositionsOf(in, ret[i].assetId, 1) IN
                 \A k \in 1..Len(ret[i].annotations) :
                   Normalized(ret[i].annotations[k], in[pos[k]])

\* the rows of the first Book are not contiguous: the lists differ in order
\* and hold the same annotations
NormalizeIdenticallyWitness ==
  /\ GroupDone
  /\ Len(call.rawAnnotations) = 3
  /\ call.rawAnnotations[1].assetId = call.rawAnnotations[3].assetId
  /\ call.rawAnnotations[1].assetId # call.rawAnnotations[2].assetId
  /\ call.rawAnnotations[1].id # call.rawAnnotations[2].id
  /\ Flatten(ret) # transformAnnotations(call.rawAnnotations)
  /\ \A k \in 1..3 :
       Count(Flatten(ret), transformAnnotations(call.rawAnnotations)[k])
         = Count(transformAnnotations(call.rawAnnotations),
                 transformAnnotations(call.rawAnnotations)[k])

====
